---- MODULE Spec2Model ----
(***************************************************************************)
(* LoopyCut loop-detection engine: frame sampling (FrameAnalyzer and       *)
(* GPUFrameAnalyzer), pair search (fast_hash, batch_ssim, hybrid and the   *)
(* legacy ssim/histogram/hash/combined methods), loop scoring and ranking  *)
(* (LoopDetector).                                                         *)
(*                                                                         *)
(* Numbers.  Python floats are modelled in fixed point: the integer x      *)
(* stands for the real x / SCALE.  Products and quotients round down, so a *)
(* value carries an error of a few 1/SCALE, the way the float32/float64    *)
(* values of the program carry a rounding error.                           *)
(*                                                                         *)
(* Frames.  A decoded frame is an 8x8 gray image (R = G = B), a function   *)
(* from the pixel position y*8+x in 0..63 to the 8-bit value.  On such a   *)
(* frame cv2.resize(frame, (8, 8)), the RGB->gray conversion and the       *)
(* max_resolution down-scaling are the identity, so the hash, SSIM,        *)
(* histogram and absdiff kernels below are computed from the pixels with   *)
(* the formulas of the source.  A state holds a frame as the number that   *)
(* names its image (Image).                                                *)
(***************************************************************************)
EXTENDS Integers, Sequences, FiniteSets, TLC

----------------------------------------------------------------------------
\* Fixed-point arithmetic

SCALE == 100 * 100

Min(a, b) == IF a <= b THEN a ELSE b
Max(a, b) == IF a >= b THEN a ELSE b
Abs(a) == IF a >= 0 THEN a ELSE 0 - a

RECURSIVE FxDigits(_, _, _)
\* n decimal digits of r / b, for 0 <= r < b
FxDigits(r, b, n) ==
    IF n = 0 THEN 0
    ELSE LET t == r * 10
             rest == FxDigits(t % b, b, n - 1)
         IN  IF n = 4 THEN (t \div b) * 1000 + rest
             ELSE IF n = 3 THEN (t \div b) * 100 + rest
             ELSE IF n = 2 THEN (t \div b) * 10 + rest
             ELSE (t \div b) + rest

\* a / b as a fixed-point number, for a >= 0 and b > 0 (long division; a large
\* divisor is scaled down first so that no intermediate exceeds 32 bits)
FxDiv(a, b) ==
    LET big == b > 200000000
        aa == IF big THEN a \div 16 ELSE a
        bb == IF big THEN b \div 16 ELSE b
    IN  (aa \div bb) * SCALE + FxDigits(aa % bb, bb, 4)

\* x * y for fixed-point x, y
FxMul(x, y) == (x * y) \div SCALE

RECURSIVE IsqrtIter(_, _)
IsqrtIter(n, x) ==
    LET y == (x + (n \div x)) \div 2
    IN  IF y >= x THEN x ELSE IsqrtIter(n, y)

\* floor of the square root
Isqrt(n) == IF n <= 0 THEN 0 ELSE IsqrtIter(n, n)

RECURSIVE SumRange(_, _, _)
\* f[lo] + ... + f[hi]
SumRange(f, lo, hi) ==
    IF lo > hi THEN 0
    ELSE IF lo = hi THEN f[lo]
    ELSE LET mid == (lo + hi) \div 2
         IN  SumRange(f, lo, mid) + SumRange(f, mid + 1, hi)

\* f[0] + ... + f[n]
SumTo(f, n) == SumRange(f, 0, n)

----------------------------------------------------------------------------
\* Frame images

Pixels == 0..63
NPix == 64

\* an image that is V on the pixels of bright, 1 on those of faint, 0 elsewhere
Img(bright, V, faint) ==
    [p \in Pixels |-> IF p \in bright THEN V ELSE IF p \in faint THEN 1 ELSE 0]

PixSum(img) == SumTo(img, NPix - 1)
PixSumSq(img) == SumTo([p \in Pixels |-> img[p] * img[p]], NPix - 1)
PixDot(a, b) == SumTo([p \in Pixels |-> a[p] * b[p]], NPix - 1)
AbsDiffSum(a, b) == SumTo([p \in Pixels |-> Abs(a[p] - b[p])], NPix - 1)

\* GPUFrameAnalyzer._fast_frame_hash_batch / FrameAnalyzer.calculate_frame_hash:
\* bit y*8+x is set iff the pixel exceeds the mean of the 8x8 image.  The hash
\* is held as the set of its set bits.
_fast_frame_hash(img) == {p \in Pixels : img[p] * NPix > PixSum(img)}

\* bin(hashes[i] ^ hashes[j]).count('1') on signed 64-bit hashes: the number of
\* one digits of the magnitude of the XOR.  X is the set of bits in which the
\* hashes differ; with bit 63 in X the XOR is negative, and its magnitude
\* 2^64 - U has bit min(X) set, the bits below clear and the bits above inverted.
LowestBit(X) == CHOOSE p \in X : \A q \in X : p <= q
BinCountOnes(h1, h2) ==
    LET X == (h1 \ h2) \cup (h2 \ h1)
    IN  IF 63 \in X THEN 65 - LowestBit(X) - Cardinality(X)
        ELSE Cardinality(X)

HashBits == 64

\* similarity = 1.0 - (hamming_dist / 64.0)
HashDistanceSimilarity(hamming_dist) == SCALE - FxDiv(hamming_dist, HashBits)
HashSimilarity(a, b) ==
    HashDistanceSimilarity(BinCountOnes(_fast_frame_hash(a), _fast_frame_hash(b)))

\* c1 = 0.01 ** 2 and c2 = 0.03 ** 2, in units of 1 / SCALE
SsimC1 == 1
SsimC2 == 9

\* GPUFrameAnalyzer._fast_ssim_batch for one pair (FrameAnalyzer.calculate_ssim
\* is the same formula): with S the pixel sum, Q the sum of squares and X the
\* dot product, mu = S/64, var = (64 Q - S^2)/64^2, cov = (64 X - S1 S2)/64^2;
\* both factors are taken times 64^2 * SCALE, and the result is clipped to [0, 1].
_fast_ssim(a, b) ==
    LET S1 == PixSum(a)
        S2 == PixSum(b)
        P2 == NPix * NPix
        lumN == 2 * S1 * S2 * SCALE + SsimC1 * P2
        lumD == (S1 * S1 + S2 * S2) * SCALE + SsimC1 * P2
        conN == 2 * (NPix * PixDot(a, b) - S1 * S2) * SCALE + SsimC2 * P2
        conD == ((NPix * PixSumSq(a) - S1 * S1) + (NPix * PixSumSq(b) - S2 * S2)) * SCALE
                  + SsimC2 * P2
    IN  IF conN <= 0 THEN 0
        ELSE Min(SCALE, FxMul(FxDiv(lumN, lumD), FxDiv(conN, conD)))

\* cv2.calcHist(..., [256], [0, 256]): the number of pixels of each value
HistBins == 256
HistCount(img, v) == Cardinality({p \in Pixels : img[p] = v})

RECURSIVE SumOver(_, _)
SumOver(f, S) ==
    IF S = {} THEN 0
    ELSE LET x == CHOOSE y \in S : TRUE IN f[x] + SumOver(f, S \ {x})

\* FrameAnalyzer.calculate_histogram_similarity: the mean over the three
\* (equal) channels of cv2.compareHist(h1, h2, HISTCMP_CORREL), the Pearson
\* correlation of the two 256-bin histograms.  The bin mean is 64/256, so
\* every term is taken times 16; a bin empty in both images contributes 1.
\* Equal histograms correlate exactly 1; the rounding of the square roots is
\* kept from carrying any other value above 1.
calculate_histogram_similarity(a, b) ==
    LET vals == {a[p] : p \in Pixels} \cup {b[p] : p \in Pixels}
        ha == [v \in vals |-> 4 * HistCount(a, v) - 1]
        hb == [v \in vals |-> 4 * HistCount(b, v) - 1]
        rest == HistBins - Cardinality(vals)
        num == SumOver([v \in vals |-> ha[v] * hb[v]], vals) + rest
        da == SumOver([v \in vals |-> ha[v] * ha[v]], vals) + rest
        db == SumOver([v \in vals |-> hb[v] * hb[v]], vals) + rest
        ra == Isqrt(da * SCALE)
        rb == Isqrt(db * SCALE)
        mag == Min(SCALE, FxDiv(Abs(num) * SCALE, ra * rb))
    IN  IF \A v \in vals : ha[v] = hb[v] THEN SCALE
        ELSE IF num >= 0 THEN mag ELSE 0 - mag

----------------------------------------------------------------------------
\* The images of the model.  1: a frame with two bright pixels; 2, 3 and 6:
\* the same frame with one, five and one (pixel 63) faintly lit pixels more;
\* 4: an unrelated frame; 5: frame 1 at a lower brightness; 7: frame 6 at a
\* lower brightness.  100 + k and
\* 200 + k (k in 0..63): sixty-four mutually unrelated frames, each at two
\* brightnesses (the shifts of a six-pixel pattern any two of which share at
\* most one pixel).

SmallImages == 1..7
ShiftPattern == {0, 1, 4, 10, 12, 17}
Shifted(k) == {(k + o) % NPix : o \in ShiftPattern}

Image(id) ==
    CASE id = 1 -> Img({0, 9}, 24, {})
      [] id = 2 -> Img({0, 9}, 24, {5})
      [] id = 3 -> Img({0, 9}, 24, {5, 17, 33, 50, 58})
      [] id = 4 -> Img({20, 41}, 24, {})
      [] id = 5 -> Img({0, 9}, 20, {})
      [] id = 6 -> Img({0, 9}, 24, {63})
      [] id = 7 -> Img({0, 9}, 22, {63})
      [] id >= 100 /\ id < 200 -> Img(Shifted(id - 100), 12, {})
      [] id >= 200 -> Img(Shifted(id - 200), 16, {})

ImageIds == SmallImages \cup (100..163) \cup (200..263)

\* The kernels on frames: each is a function of the pixels of its frames,
\* tabulated once for the images above.
PixelsOf == [id \in ImageIds |-> Image(id)]
HashTable == [id \in ImageIds |-> _fast_frame_hash(PixelsOf[id])]
HashSimTable ==
    [a \in SmallImages |-> [b \in SmallImages |-> HashSimilarity(PixelsOf[a], PixelsOf[b])]]
SsimTable ==
    [a \in SmallImages |-> [b \in SmallImages |-> _fast_ssim(PixelsOf[a], PixelsOf[b])]]
HistTable ==
    [a \in SmallImages |->
        [b \in SmallImages |-> calculate_histogram_similarity(PixelsOf[a], PixelsOf[b])]]
AbsDiffTable ==
    [a \in SmallImages |-> [b \in SmallImages |-> AbsDiffSum(PixelsOf[a], PixelsOf[b])]]

Tabulated(a, b) == a \in SmallImages /\ b \in SmallImages

FrameHash(a) == HashTable[a]
FrameHashSimilarity(a, b) ==
    IF Tabulated(a, b) THEN HashSimTable[a][b]
    ELSE HashDistanceSimilarity(BinCountOnes(HashTable[a], HashTable[b]))
FrameSsim(a, b) ==
    IF Tabulated(a, b) THEN SsimTable[a][b] ELSE _fast_ssim(PixelsOf[a], PixelsOf[b])
FrameHistSimilarity(a, b) ==
    IF Tabulated(a, b) THEN HistTable[a][b]
    ELSE calculate_histogram_similarity(PixelsOf[a], PixelsOf[b])
FrameAbsDiff(a, b) ==
    IF Tabulated(a, b) THEN AbsDiffTable[a][b] ELSE AbsDiffSum(PixelsOf[a], PixelsOf[b])

----------------------------------------------------------------------------
\* Optional arguments: None is the empty tuple, a given value v is <<v>>.
\* desired_length = "auto" is None as well.

None == <<>>
Some(v) == <<v>>
IsNone(o) == o = <<>>
Val(o) == o[1]

----------------------------------------------------------------------------
\* The video file behind cv2.VideoCapture: the frames the decoder delivers
\* (frame k of the file is frames[k + 1]), the frame count and the frame rate
\* the container reports.  A truncated stream delivers fewer frames than the
\* container reports.

\* cap.read() at decoder position pos: <<ret, frame>>
CapRead(v, pos) ==
    IF 0 <= pos /\ pos < Len(v.frames) THEN <<TRUE, v.frames[pos + 1]>>
    ELSE <<FALSE, 0>>

\* get_video_info (both analyzers)
get_video_info(v) == [total_frames |-> v.total_frames, fps |-> v.fps]

----------------------------------------------------------------------------
\* Frame sampling

\* A variant of the validation: every range accepted
ExtractRangeUnchecked(v, start_frame, end_frame) ==
    [ok |-> TRUE, end_frame |-> IF IsNone(end_frame) THEN v.total_frames ELSE Val(end_frame)]

\* The validation of extract_frames (both analyzers): the clamped end_frame, or
\* the ValueError.
ExtractRange(v, start_frame, end_frame) ==
    LET total_frames == v.total_frames
        e0 == IF IsNone(end_frame) THEN total_frames ELSE Val(end_frame)
        e1 == IF e0 > total_frames THEN total_frames ELSE e0
    IN  IF start_frame < 0 \/ start_frame >= total_frames THEN [ok |-> FALSE, end_frame |-> e0]
        ELSE IF start_frame >= e1 THEN [ok |-> FALSE, end_frame |-> e1]
        ELSE [ok |-> TRUE, end_frame |-> e1]

\* A variant of the stored index: the loop counter in place of the frame index
GpuStoredCounter(frame_idx, frame_counter) == frame_counter

\* What GPUFrameAnalyzer.extract_frames stores for a frame it keeps:
\* self.original_frame_indices.append(frame_idx)
GpuStoredIndex(frame_idx, frame_counter) == frame_idx

\* Python's a % b for b # 0: the result has the sign of the divisor
PyMod(a, b) == IF b > 0 THEN a % b ELSE 0 - ((0 - a) % (0 - b))

\* if frame_counter % downsample_factor == 0
GpuKeeps(frame_counter, downsample_factor) == PyMod(frame_counter, downsample_factor) = 0

\* The number of iterations of "for frame_idx in range(start_frame, end_frame)"
\* whose cap.read() delivers a frame: the decoder was set to start_frame, every
\* read advances it by one frame, and the loop breaks at the first failed read.
FramesRead(v, start_frame, end_frame) ==
    Max(0, Min(end_frame, Len(v.frames)) - start_frame)

\* The loop of GPUFrameAnalyzer.extract_frames: frame_counter counts the frames
\* read; the frames kept, original_frame_indices and, for each kept frame, the
\* decoder position it was read at (pos).
GpuExtractLoop(v, start_frame, end_frame, downsample_factor) ==
    LET n_read == FramesRead(v, start_frame, end_frame)
        kept == SelectSeq([c \in 1..n_read |-> c - 1],
                          LAMBDA frame_counter : GpuKeeps(frame_counter, downsample_factor))
    IN  [frames |-> [k \in 1..Len(kept) |-> CapRead(v, start_frame + kept[k])[2]],
         original_frame_indices |->
             [k \in 1..Len(kept) |-> GpuStoredIndex(start_frame + kept[k], kept[k])],
         pos |-> [k \in 1..Len(kept) |-> start_frame + kept[k]]]

\* The loop of FrameAnalyzer.extract_frames: every frame read is kept.
CpuExtractLoop(v, start_frame, end_frame) ==
    LET n_read == FramesRead(v, start_frame, end_frame)
    IN  [frames |-> [k \in 1..n_read |-> CapRead(v, start_frame + (k - 1))[2]],
         pos |-> [k \in 1..n_read |-> start_frame + (k - 1)]]

----------------------------------------------------------------------------
\* Pair search.  A pair is <<i, j, similarity>> with i, j the 0-based
\* positions in the frame list.

\* list.sort(key=..., reverse=True): a stable sort by descending key.  ks[k]
\* is the key of seq[k].
RECURSIVE SortBuckets(_, _, _)
SortBuckets(seq, ks, K) ==
    IF K = {} THEN <<>>
    ELSE LET m == CHOOSE x \in K : \A y \in K : x >= y
             idx == SelectSeq([k \in 1..Len(seq) |-> k], LAMBDA k : ks[k] = m)
         IN  [t \in 1..Len(idx) |-> seq[idx[t]]] \o SortBuckets(seq, ks, K \ {m})

SortDescending(seq, ks) == SortBuckets(seq, ks, {ks[k] : k \in 1..Len(seq)})

SortPairs(pairs) == SortDescending(pairs, [k \in 1..Len(pairs) |-> pairs[k][3]])

\* for i in range(n_frames): for j in range(i + 1, n_frames): the pairs in
\* the order the loops visit them
AllPairs(n) ==
    SelectSeq([t \in 1..(n * n) |-> <<(t - 1) \div n, (t - 1) % n>>],
              LAMBDA q : q[1] < q[2])

\* A variant of the threshold test: every pair kept
KeepAll(idx, sim, threshold) == [k \in 1..Len(idx) |-> <<idx[k][1], idx[k][2], sim[k]>>]

\* the pairs of idx with their similarity, those below the threshold dropped
KeepSimilar(idx, sim, threshold) ==
    SelectSeq([k \in 1..Len(idx) |-> <<idx[k][1], idx[k][2], sim[k]>>],
              LAMBDA pr : pr[3] >= threshold)
\* hashes = self.calculate_batch_hashes(frames); the similarity of the pair
\* (i, j) is 1.0 - hamming_dist / 64.0
HashSimOfPair(frames, i, j) == FrameHashSimilarity(frames[i + 1], frames[j + 1])

\* GPUFrameAnalyzer._find_similar_by_hash at self.similarity_threshold = threshold
_find_similar_by_hash(frames, threshold) ==
    LET idx == AllPairs(Len(frames))
        sim == [k \in 1..Len(idx) |-> HashSimOfPair(frames, idx[k][1], idx[k][2])]
    IN  SortPairs(KeepSimilar(idx, sim, threshold))

RECURSIVE BatchesFrom(_, _, _, _)
\* for j_start in range(i + 1, n_frames, batch_size): the j of each batch
BatchesFrom(i, j_start, n, batch_size) ==
    IF j_start >= n THEN <<>>
    ELSE LET j_end == Min(j_start + batch_size, n)
         IN  [t \in 1..(j_end - j_start) |-> <<i, j_start + (t - 1)>>]
               \o BatchesFrom(i, j_start + batch_size, n, batch_size)

RECURSIVE BatchRowsFrom(_, _, _)
BatchRowsFrom(i, n, batch_size) ==
    IF i >= n THEN <<>>
    ELSE BatchesFrom(i, i + 1, n, batch_size) \o BatchRowsFrom(i + 1, n, batch_size)

\* A variant of the batch search: of every row only the first batch evaluated
BatchSsimFirstBatchOnly(frames, batch_size, threshold) ==
    LET idx == SelectSeq(AllPairs(Len(frames)), LAMBDA q : q[2] - q[1] <= batch_size)
        sim == [k \in 1..Len(idx) |->
                  FrameSsim(frames[idx[k][1] + 1], frames[idx[k][2] + 1])]
    IN  SortPairs(KeepSimilar(idx, sim, threshold))

\* GPUFrameAnalyzer._find_similar_by_batch_ssim
_find_similar_by_batch_ssim(frames, batch_size, threshold) ==
    LET idx == BatchRowsFrom(0, Len(frames), batch_size)
        sim == [k \in 1..Len(idx) |->
                  FrameSsim(frames[idx[k][1] + 1], frames[idx[k][2] + 1])]
    IN  SortPairs(KeepSimilar(idx, sim, threshold))

\* hash_threshold = max(0.8, self.similarity_threshold - 0.1)
HybridFloor == 8000
HybridRelax == 1000

\* A variant of the relaxed threshold: the margin taken from the other end
HybridHashThresholdMirrored(threshold) == Max(HybridFloor, SCALE - threshold)

HybridHashThreshold(threshold) == Max(HybridFloor, threshold - HybridRelax)

\* combined_score = 0.3 * hash_score + 0.7 * ssim_score
HybridHashWeight == 3000
HybridSsimWeight == 7000
HybridScore(hash_score, ssim_score) ==
    FxMul(HybridHashWeight, hash_score) + FxMul(HybridSsimWeight, ssim_score)

\* A variant of the SSIM verification: every hash candidate accepted
HybridUnverified(ssim_score, threshold) == TRUE

\* if ssim_score >= self.similarity_threshold
HybridVerified(ssim_score, threshold) == ssim_score >= threshold

\* GPUFrameAnalyzer._find_similar_hybrid; self.similarity_threshold is set to
\* the relaxed threshold for the hash pass and restored after it.
_find_similar_hybrid(frames, batch_size, threshold) ==
    LET hash_candidates == _find_similar_by_hash(frames, HybridHashThreshold(threshold))
        ssim == [k \in 1..Len(hash_candidates) |->
                   FrameSsim(frames[hash_candidates[k][1] + 1],
                             frames[hash_candidates[k][2] + 1])]
        checked == [k \in 1..Len(hash_candidates) |->
                      <<hash_candidates[k][1], hash_candidates[k][2],
                        hash_candidates[k][3], ssim[k]>>]
        verified == SelectSeq(checked, LAMBDA q : HybridVerified(q[4], threshold))
    IN  SortPairs([k \in 1..Len(verified) |->
                     <<verified[k][1], verified[k][2],
                       HybridScore(verified[k][3], verified[k][4])>>])

GpuMethods == {"fast_hash", "batch_ssim", "hybrid"}
LegacyMethods == {"ssim", "histogram", "hash", "combined"}
Methods == GpuMethods \cup LegacyMethods

DefaultBatchSize == 100

\* GPUFrameAnalyzer.find_similar_frames_optimized(frames, method, batch_size)
find_similar_frames_optimized(frames, method, batch_size, threshold) ==
    IF Len(frames) = 0 THEN [outcome |-> "ValueError", pairs |-> <<>>]
    ELSE IF method = "fast_hash"
         THEN [outcome |-> "ok", pairs |-> _find_similar_by_hash(frames, threshold)]
    ELSE IF method = "batch_ssim"
         THEN [outcome |-> "ok",
               pairs |-> _find_similar_by_batch_ssim(frames, batch_size, threshold)]
    ELSE IF method = "hybrid"
         THEN [outcome |-> "ok",
               pairs |-> _find_similar_hybrid(frames, batch_size, threshold)]
    ELSE [outcome |-> "ValueError", pairs |-> <<>>]

\* 0.6 * ssim_score + 0.4 * hist_score
CombinedSsimWeight == 6000
CombinedHistWeight == 4000

\* FrameAnalyzer._calculate_similarity for a supported method
_calculate_similarity(a, b, method) ==
    IF method = "ssim" THEN FrameSsim(a, b)
    ELSE IF method = "histogram" THEN FrameHistSimilarity(a, b)
    ELSE IF method = "hash"
         THEN (IF FrameHash(a) = FrameHash(b) THEN SCALE ELSE 0)
    ELSE FxMul(CombinedSsimWeight, FrameSsim(a, b))
           + FxMul(CombinedHistWeight, FrameHistSimilarity(a, b))

\* FrameAnalyzer.find_similar_frames(frames, method): an unknown method raises
\* at the first comparison
find_similar_frames(frames, method, threshold) ==
    IF Len(frames) = 0 THEN [outcome |-> "ValueError", pairs |-> <<>>]
    ELSE IF method \notin LegacyMethods /\ Len(frames) >= 2
         THEN [outcome |-> "ValueError", pairs |-> <<>>]
    ELSE LET idx == AllPairs(Len(frames))
             sim == [k \in 1..Len(idx) |->
                       _calculate_similarity(frames[idx[k][1] + 1],
                                             frames[idx[k][2] + 1], method)]
         IN  [outcome |-> "ok", pairs |-> SortPairs(KeepSimilar(idx, sim, threshold))]

----------------------------------------------------------------------------
\* The analyzer object: kind ("FrameAnalyzer" or "GPUFrameAnalyzer"),
\* similarity_threshold, frames_cache and, for the GPU analyzer, the attribute
\* original_frame_indices, which exists only once extract_frames has set it
\* (has_indices).

NewAnalyzer(kind, threshold) ==
    [kind |-> kind, similarity_threshold |-> threshold, frames_cache |-> <<>>,
     has_indices |-> FALSE, original_frame_indices |-> <<>>]

\* A variant of GPUFrameAnalyzer.extract_frames: the index mapping of the
\* earlier call is not cleared but appended to
GpuExtractFramesAppending(an, v, start_frame, end_frame, downsample_factor) ==
    LET rng == ExtractRange(v, start_frame, end_frame)
        acc == GpuExtractLoop(v, start_frame, rng.end_frame, downsample_factor)
    IN  IF ~rng.ok
        THEN [an |-> an, outcome |-> "ValueError", frames |-> <<>>, pos |-> <<>>]
        ELSE IF downsample_factor = 0
        THEN [an |-> an, outcome |-> "ZeroDivisionError", frames |-> <<>>, pos |-> <<>>]
        ELSE [an |-> [an EXCEPT !.has_indices = TRUE,
                                !.original_frame_indices =
                                    an.original_frame_indices \o acc.original_frame_indices,
                                !.frames_cache = acc.frames],
              outcome |-> "ok", frames |-> acc.frames, pos |-> acc.pos]

\* GPUFrameAnalyzer.extract_frames(video_path, start_frame, end_frame,
\* downsample_factor): the analyzer after the call, the outcome, the frames
\* returned and the decoder position each was read at.
GpuExtractFrames(an, v, start_frame, end_frame, downsample_factor) ==
    LET rng == ExtractRange(v, start_frame, end_frame)
        acc == GpuExtractLoop(v, start_frame, rng.end_frame, downsample_factor)
    IN  IF ~rng.ok
        THEN [an |-> an, outcome |-> "ValueError", frames |-> <<>>, pos |-> <<>>]
        ELSE IF downsample_factor = 0
        THEN [an |-> an, outcome |-> "ZeroDivisionError", frames |-> <<>>, pos |-> <<>>]
        ELSE [an |-> [an EXCEPT !.has_indices = TRUE,
                                !.original_frame_indices = acc.original_frame_indices,
                                !.frames_cache = acc.frames],
              outcome |-> "ok", frames |-> acc.frames, pos |-> acc.pos]

\* FrameAnalyzer.extract_frames(video_path, start_frame, end_frame)
CpuExtractFrames(an, v, start_frame, end_frame) ==
    LET rng == ExtractRange(v, start_frame, end_frame)
        acc == CpuExtractLoop(v, start_frame, rng.end_frame)
    IN  IF ~rng.ok
        THEN [an |-> an, outcome |-> "ValueError", frames |-> <<>>, pos |-> <<>>]
        ELSE [an |-> [an EXCEPT !.frames_cache = acc.frames],
              outcome |-> "ok", frames |-> acc.frames, pos |-> acc.pos]

\* GPUFrameAnalyzer.get_original_frame_index
get_original_frame_index(an, extracted_frame_index) ==
    IF an.has_indices /\ extracted_frame_index < Len(an.original_frame_indices)
    THEN an.original_frame_indices[extracted_frame_index + 1]
    ELSE extracted_frame_index

----------------------------------------------------------------------------
\* LoopDetector

\* floor(100 * sqrt(V))
SqrtFx(V) == IF V <= 200000 THEN Isqrt(V * SCALE) ELSE Isqrt(V * 100) * 10

\* A variant of the consistency: the ratio not clamped at 0
MotionConsistencyUnclamped(sample_frames) ==
    IF Len(sample_frames) < 2 THEN SCALE
    ELSE LET n == Len(sample_frames) - 1
             A == [i \in 1..n |->
                     FrameAbsDiff(sample_frames[i], sample_frames[i + 1])]
             T == SumTo([i \in 0..n |-> IF i = 0 THEN 0 ELSE A[i]], n)
             Q == SumTo([i \in 0..n |-> IF i = 0 THEN 0 ELSE A[i] * A[i]], n)
         IN  IF T = 0 THEN SCALE
             ELSE SCALE - ((SqrtFx(n * Q - T * T) * 100) \div T)

\* LoopDetector._analyze_motion_consistency(sample_frames): with A the sums of
\* the absolute pixel differences of consecutive samples, T their total and n
\* their number, std / mean = sqrt(n * sum(A^2) - T^2) / T.
_analyze_motion_consistency(sample_frames) ==
    IF Len(sample_frames) < 2 THEN SCALE
    ELSE LET n == Len(sample_frames) - 1
             A == [i \in 1..n |->
                     FrameAbsDiff(sample_frames[i], sample_frames[i + 1])]
             T == SumTo([i \in 0..n |-> IF i = 0 THEN 0 ELSE A[i]], n)
             Q == SumTo([i \in 0..n |-> IF i = 0 THEN 0 ELSE A[i] * A[i]], n)
         IN  IF T = 0 THEN SCALE
             ELSE Max(0, SCALE - ((SqrtFx(n * Q - T * T) * 100) \div T))

\* if len(loop_frames) > 10
MotionMinFrames == 10
\* min(5, len(loop_frames)) samples
MotionSamples == 5
\* A variant of the sampling: the first frames of the loop
FirstSamples(last, num) == [k \in 1..num |-> k - 1]

\* np.linspace(0, len(loop_frames) - 1, num, dtype=int)
Linspace(last, num) == [k \in 1..num |-> ((k - 1) * last) \div (num - 1)]

\* A variant of the quality: the unweighted sum
QualitySum(similarity, motion_consistency) == similarity + motion_consistency

\* quality = 0.7 * similarity + 0.3 * motion_consistency
QualitySimWeight == 7000
QualityMotionWeight == 3000
QualityBlend(similarity, motion_consistency) ==
    FxMul(QualitySimWeight, similarity) + FxMul(QualityMotionWeight, motion_consistency)

\* LoopDetector._calculate_loop_quality(frames, start_idx, end_idx, similarity)
_calculate_loop_quality(frames, start_idx, end_idx, similarity) ==
    LET loop_frames == SubSeq(frames, start_idx + 1, Min(end_idx + 1, Len(frames)))
    IN  IF Len(loop_frames) > MotionMinFrames
        THEN LET sample_indices ==
                     Linspace(Len(loop_frames) - 1, Min(MotionSamples, Len(loop_frames)))
             IN  QualityBlend(similarity,
                    _analyze_motion_consistency(
                        [k \in 1..Len(sample_indices) |-> loop_frames[sample_indices[k] + 1]]))
        ELSE similarity

\* if loop_duration < 0.5: continue
MinLoopSeconds == 5000
TooShort(loop_duration) == loop_duration < MinLoopSeconds

\* A variant of the length filter: no candidate dropped
NeverTooDifferent(loop_duration, desired_length) == FALSE

\* abs(loop_duration - desired_length) > desired_length * 0.2
LengthTolerance == 2000
TooDifferent(loop_duration, desired_length) ==
    ~IsNone(desired_length)
      /\ Abs(loop_duration - Val(desired_length)) > FxMul(Val(desired_length), LengthTolerance)

\* The original-video indices _analyze_loop_candidates gives the frame at
\* position idx of the frame list
OriginalIndex(an, idx, frame_offset, downsample_factor) ==
    IF an.kind = "GPUFrameAnalyzer" THEN get_original_frame_index(an, idx)
    ELSE frame_offset + (idx * downsample_factor)

\* The candidate dictionary of a pair.  start_idx and end_idx are not keys of
\* the dictionary: they record the pair the candidate was built from.
Candidate(an, pr, frames, fps, frame_offset, downsample_factor) ==
    LET original_start_frame == OriginalIndex(an, pr[1], frame_offset, downsample_factor)
        original_end_frame == OriginalIndex(an, pr[2], frame_offset, downsample_factor)
        loop_frames == original_end_frame - original_start_frame
    IN  [start_frame |-> original_start_frame,
         end_frame |-> original_end_frame,
         start_time |-> FxDiv(original_start_frame, fps),
         end_time |-> FxDiv(original_end_frame, fps),
         duration |-> FxDiv(loop_frames, fps),
         frame_count |-> loop_frames,
         similarity_score |-> pr[3],
         quality_score |-> _calculate_loop_quality(frames, pr[1], pr[2], pr[3]),
         fps |-> fps,
         downsample_factor |-> downsample_factor,
         start_idx |-> pr[1],
         end_idx |-> pr[2]]

\* The pairs _analyze_loop_candidates keeps
KeepsPair(an, pr, fps, desired_length, frame_offset, downsample_factor) ==
    LET loop_duration ==
            FxDiv(OriginalIndex(an, pr[2], frame_offset, downsample_factor)
                    - OriginalIndex(an, pr[1], frame_offset, downsample_factor), fps)
    IN  ~TooShort(loop_duration) /\ ~TooDifferent(loop_duration, desired_length)

\* LoopDetector._analyze_loop_candidates
_analyze_loop_candidates(an, similar_pairs, frames, fps, desired_length, frame_offset, downsample_factor) ==
    LET kept == SelectSeq(similar_pairs,
                    LAMBDA pr : KeepsPair(an, pr, fps, desired_length, frame_offset,
                                          downsample_factor))
    IN  [k \in 1..Len(kept) |->
           Candidate(an, kept[k], frames, fps, frame_offset, downsample_factor)]

\* score *= (1.0 - min(0.5, length_penalty))
MaxLengthPenalty == 5000
\* duration_bonus = min(0.1, candidate['duration'] / 10.0)
MaxDurationBonus == 1000
DurationBonusDivisor == 10

\* A variant of the score: the length preference left out
FinalScoreAnyLength(candidate, desired_length) ==
    candidate.quality_score
      + Min(MaxDurationBonus, candidate.duration \div DurationBonusDivisor)

\* candidate['final_score'] of _rank_loop_candidates
FinalScore(candidate, desired_length) ==
    LET score == candidate.quality_score
        shaped == IF IsNone(desired_length) THEN score
                  ELSE LET length_diff == Abs(candidate.duration - Val(desired_length))
                           length_penalty == FxDiv(length_diff, Val(desired_length))
                       IN  FxMul(score, SCALE - Min(MaxLengthPenalty, length_penalty))
    IN  shaped + Min(MaxDurationBonus, candidate.duration \div DurationBonusDivisor)

WithFinalScore(candidate, score) ==
    [f \in DOMAIN candidate \cup {"final_score"} |->
        IF f = "final_score" THEN score ELSE candidate[f]]

\* A variant of the ranking: the candidates left in the order of their pairs
Unsorted(scored) == scored

\* candidates.sort(key=lambda x: x['final_score'], reverse=True)
SortCandidates(scored) ==
    SortDescending(scored, [k \in 1..Len(scored) |-> scored[k].final_score])

\* LoopDetector._rank_loop_candidates(candidates, desired_length)
_rank_loop_candidates(candidates, desired_length) ==
    IF Len(candidates) = 0 THEN <<>>
    ELSE SortCandidates([k \in 1..Len(candidates) |->
            WithFinalScore(candidates[k], FinalScore(candidates[k], desired_length))])

\* A variant of int(): rounding to the nearest integer
IntNearest(x) == (x + (SCALE \div 2)) \div SCALE

\* int(x) of a fixed-point x: truncation towards zero
IntTrunc(x) == IF x >= 0 THEN x \div SCALE ELSE 0 - ((0 - x) \div SCALE)

\* The analysis window of detect_loops: the frame arguments override the time
\* arguments, then both ends are clamped.
ResolveStart(fps, total_frames, start_time, start_frame) ==
    LET s0 == IF IsNone(start_frame) THEN IntTrunc(start_time * fps) ELSE Val(start_frame)
    IN  Max(0, Min(s0, total_frames - 1))

ResolveEnd(fps, total_frames, start, end_time, end_frame) ==
    LET e0 == IF ~IsNone(end_frame) THEN Val(end_frame)
              ELSE IF ~IsNone(end_time) THEN IntTrunc(Val(end_time) * fps)
              ELSE total_frames
    IN  Max(start + 1, Min(e0, total_frames))

Raised(an, det, outcome, start, end, ex) ==
    [an |-> an, detected_loops |-> det, outcome |-> outcome, result |-> <<>>,
     start_frame |-> start, end_frame |-> end, frames |-> ex.frames, pos |-> ex.pos,
     pairs |-> <<>>]

\* The arguments of detect_loops with their defaults
DefaultArgs ==
    [desired_length |-> None, start_time |-> 0, end_time |-> None, start_frame |-> None,
     end_frame |-> None, downsample_factor |-> 1, method |-> "combined"]

\* A variant of the pair search: an empty frame list has no similar pairs
SimilarPairsOfAny(ex, method) ==
    IF Len(ex.frames) = 0 THEN [outcome |-> "ok", pairs |-> <<>>]
    ELSE IF ex.an.kind = "GPUFrameAnalyzer"
    THEN find_similar_frames_optimized(ex.frames, method, DefaultBatchSize,
                                       ex.an.similarity_threshold)
    ELSE find_similar_frames(ex.frames, method, ex.an.similarity_threshold)

\* The pair search of detect_loops on the frames extracted (ex): the GPU
\* analyzer's find_similar_frames_optimized, the other's find_similar_frames
SimilarPairs(ex, method) ==
    IF ex.an.kind = "GPUFrameAnalyzer"
    THEN find_similar_frames_optimized(ex.frames, method, DefaultBatchSize,
                                       ex.an.similarity_threshold)
    ELSE find_similar_frames(ex.frames, method, ex.an.similarity_threshold)

\* The end of detect_loops: an exception of the extraction or of the search
\* leaves it; no pairs, [] is returned; otherwise the candidates are built,
\* ranked, stored in detected_loops and returned
RankedLoops(det, ex, found, fps, desired_length, start, end, downsample_factor) ==
    LET ranked == _rank_loop_candidates(
                      _analyze_loop_candidates(ex.an, found.pairs, ex.frames, fps,
                                               desired_length, start, downsample_factor),
                      desired_length)
    IN  IF ex.outcome # "ok" THEN Raised(ex.an, det, ex.outcome, start, end, ex)
        ELSE IF found.outcome # "ok" THEN Raised(ex.an, det, found.outcome, start, end, ex)
        ELSE IF Len(found.pairs) = 0
        THEN [an |-> ex.an, detected_loops |-> det, outcome |-> "ok", result |-> <<>>,
              start_frame |-> start, end_frame |-> end, frames |-> ex.frames,
              pos |-> ex.pos, pairs |-> found.pairs]
        ELSE [an |-> ex.an, detected_loops |-> ranked, outcome |-> "ok",
              result |-> ranked, start_frame |-> start, end_frame |-> end,
              frames |-> ex.frames, pos |-> ex.pos, pairs |-> found.pairs]

\* LoopDetector.detect_loops on the analyzer an, the detector's detected_loops
\* det and the video v, with the arguments args: the objects after the call,
\* the outcome ("ok" or the exception), the list returned and, for reference,
\* the window, the frames sampled with their decoder positions and the pairs
\* found.
detect_loops(an, det, v, args) ==
    LET video_info == get_video_info(v)
        start == ResolveStart(video_info.fps, video_info.total_frames,
                              args.start_time, args.start_frame)
        end == ResolveEnd(video_info.fps, video_info.total_frames, start,
                          args.end_time, args.end_frame)
        ex == IF an.kind = "GPUFrameAnalyzer"
              THEN GpuExtractFrames(an, v, start, Some(end), args.downsample_factor)
              ELSE CpuExtractFrames(an, v, start, Some(end))
    IN  RankedLoops(det, ex, SimilarPairs(ex, args.method), video_info.fps,
                    args.desired_length, start, end, args.downsample_factor)

\* LoopDetector.get_best_loop: the record r of the detect_loops call it makes,
\* with the value it returns (best): loops[0] if loops else None
BestLoop(r) ==
    [an |-> r.an, detected_loops |-> r.detected_loops, outcome |-> r.outcome,
     result |-> r.result, start_frame |-> r.start_frame, end_frame |-> r.end_frame,
     frames |-> r.frames, pos |-> r.pos, pairs |-> r.pairs,
     best |-> IF r.outcome = "ok" /\ Len(r.result) > 0 THEN Some(r.result[1]) ELSE None]

get_best_loop(an, det, v, kwargs) == BestLoop(detect_loops(an, det, v, kwargs))

----------------------------------------------------------------------------
\* State

VARIABLES
    video,            \* the video file: [frames, total_frames, fps]
    analyzer,         \* the FrameAnalyzer / GPUFrameAnalyzer object
    detected_loops,   \* LoopDetector.detected_loops
    last              \* the last call: its arguments, outcome and result

vars == <<video, analyzer, detected_loops, last>>

\* Bounds of the model
MaxFrames == 12

\* the frame rates of the videos (frames per second)
FrameRates == {4}
Thresholds == {9000, 9800}
AnalyzerKinds == {"FrameAnalyzer", "GPUFrameAnalyzer"}
VideoLengths == {3, MaxFrames}
\* the frames the container reports beyond those the decoder delivers
Truncations == {0, 2}

\* A video of n frames that repeats the pattern pat
PatternVideo(pat, n, fps, missing) ==
    [frames |-> [k \in 1..n |-> pat[((k - 1) % Len(pat)) + 1]],
     total_frames |-> n + missing, fps |-> fps]

\* the patterns of the videos: a still, alternations of two frames, cycles
\* of three and four
Patterns == {<<1>>, <<1, 3>>, <<1, 4>>, <<3, 4>>, <<1, 3, 4>>, <<1, 4, 3, 1>>}

Videos ==
    {PatternVideo(pat, n, fps, missing) :
        pat \in Patterns, n \in VideoLengths, fps \in FrameRates, missing \in Truncations}

DesiredLengths == {None, Some(2 * SCALE)}
DownsampleFactors == {1, 2}
StartFrames == {None, Some(1)}

Init ==
    /\ video \in Videos
    /\ analyzer \in {NewAnalyzer(k, t) : k \in AnalyzerKinds, t \in Thresholds}
    /\ detected_loops = <<>>
    /\ last = [op |-> "init"]

\* A call detector.detect_loops(video, desired_length = ..., start_frame = ...,
\* downsample_factor = ..., method = ...) on the freshly built objects, the way
\* cli.main makes it
DetectLoops(desired_length, start_frame, downsample_factor, method) ==
    /\ last.op = "init"
    /\ \E r \in {detect_loops(analyzer, detected_loops, video,
                          [DefaultArgs EXCEPT !.desired_length = desired_length,
                                              !.start_frame = start_frame,
                                              !.downsample_factor = downsample_factor,
                                              !.method = method])} :
            /\ analyzer' = r.an
            /\ detected_loops' = r.detected_loops
            /\ last' = [op |-> "detect_loops", desired_length |-> desired_length,
                        downsample_factor |-> downsample_factor, method |-> method,
                        outcome |-> r.outcome, result |-> r.result,
                        start_frame |-> r.start_frame, end_frame |-> r.end_frame,
                        frames |-> r.frames, pos |-> r.pos, pairs |-> r.pairs]
            /\ UNCHANGED video

\* A call detector.get_best_loop(video, desired_length = ..., method = ...)
GetBestLoop(desired_length, method) ==
    /\ last.op = "init"
    /\ \E r \in {get_best_loop(analyzer, detected_loops, video,
                           [DefaultArgs EXCEPT !.desired_length = desired_length,
                                               !.method = method])} :
            /\ analyzer' = r.an
            /\ detected_loops' = r.detected_loops
            /\ last' = [op |-> "get_best_loop", desired_length |-> desired_length,
                        downsample_factor |-> DefaultArgs.downsample_factor, method |-> method,
                        outcome |-> r.outcome, result |-> r.result,
                        start_frame |-> r.start_frame, end_frame |-> r.end_frame,
                        frames |-> r.frames, pos |-> r.pos, pairs |-> r.pairs,
                        best |-> r.best]
            /\ UNCHANGED video

Next ==
    \/ \E desired_length \in DesiredLengths, start_frame \in StartFrames,
          downsample_factor \in DownsampleFactors, method \in Methods :
            DetectLoops(desired_length, start_frame, downsample_factor, method)
    \/ \E desired_length \in DesiredLengths, method \in Methods :
            GetBestLoop(desired_length, method)

Spec == Init /\ [][Next]_vars

----------------------------------------------------------------------------
\* Properties of the candidates detect_loops returns

Called == last.op \in {"detect_loops", "get_best_loop"}
Returned == IF Called /\ last.outcome = "ok" THEN last.result ELSE <<>>

\* C1: every candidate detect_loops returns, with either analyzer, any window
\* and any downsample_factor >= 1, has 0 <= start_frame < end_frame <
\* total_frames of the video.
C1_FramesInsideVideo ==
    \A k \in 1..Len(Returned) :
        /\ 0 <= Returned[k].start_frame
        /\ Returned[k].start_frame < Returned[k].end_frame
        /\ Returned[k].end_frame < video.total_frames

\* C2: stride never perturbs reported positions: start_frame and end_frame of
\* every candidate are the original-video indices (the decoder positions) of
\* the two sampled frames of its pair, and start_time = start_frame / fps,
\* end_time = end_frame / fps, duration = (end_frame - start_frame) / fps.
C2_PositionsOfSampledFrames ==
    \A k \in 1..Len(Returned) :
        LET c == Returned[k]
        IN  /\ c.start_frame = last.pos[c.start_idx + 1]
            /\ c.end_frame = last.pos[c.end_idx + 1]
            /\ c.start_time = FxDiv(c.start_frame, video.fps)
            /\ c.end_time = FxDiv(c.end_frame, video.fps)
            /\ c.duration = FxDiv(c.end_frame - c.start_frame, video.fps)

\* C6: every candidate detect_loops returns has duration >= 0.5 s, and with a
\* numeric desired_length L also |duration - L| <= 0.2 * L.
C6_DurationFilters ==
    \A k \in 1..Len(Returned) :
        /\ 2 * Returned[k].duration >= SCALE
        /\ ~IsNone(last.desired_length) =>
             10 * Abs(Returned[k].duration - Val(last.desired_length))
               <= 2 * Val(last.desired_length)

\* a call with a numeric desired_length that returns candidates, one of them
\* off the desired length, and has dropped pairs it found
C6_Witness ==
    /\ Called
    /\ ~IsNone(last.desired_length)
    /\ Len(Returned) >= 1
    /\ Len(last.pairs) > Len(Returned)
    /\ \E k \in 1..Len(Returned) : Returned[k].duration # Val(last.desired_length)

\* C7: the list detect_loops returns is ordered by final_score, non-increasing,
\* and get_best_loop returns its first element (None when it is empty).
C7_RankedBestFirst ==
    /\ \A k \in 1..Len(Returned) : \A l \in 1..Len(Returned) :
          k < l => Returned[k].final_score >= Returned[l].final_score
    /\ (last.op = "get_best_loop" /\ last.outcome = "ok") =>
          last.best = IF Len(last.result) = 0 THEN None ELSE Some(last.result[1])

\* get_best_loop on a video whose candidates differ in final_score
C7_Witness ==
    /\ last.op = "get_best_loop"
    /\ Len(Returned) >= 3
    /\ Returned[1].final_score > Returned[Len(Returned)].final_score
    /\ last.best = Some(Returned[1])

\* C8: every candidate detect_loops returns has 0 <= quality_score <= 1 and
\* 0 <= final_score <= 1.1, under every strategy and every desired_length.
C8_ScoreBounds ==
    \A k \in 1..Len(Returned) :
        /\ 0 <= Returned[k].quality_score
        /\ Returned[k].quality_score <= SCALE
        /\ 0 <= Returned[k].final_score
        /\ 10 * Returned[k].final_score <= 11 * SCALE

\* a result with a candidate scored through the motion analysis and a candidate
\* at the top of the final_score range
C8_Witness ==
    /\ Called
    /\ \E k \in 1..Len(Returned) :
          /\ Returned[k].end_idx - Returned[k].start_idx >= MotionMinFrames
          /\ Returned[k].quality_score < Returned[k].similarity_score
    /\ \E k \in 1..Len(Returned) : 10 * Returned[k].final_score = 11 * SCALE

\* the analyzer of the call knows the method asked for: the GPU analyzer the
\* three of find_similar_frames_optimized, the other the four of
\* _calculate_similarity (which is not reached with fewer than two frames)
MethodServed ==
    IF analyzer.kind = "GPUFrameAnalyzer" THEN last.method \in GpuMethods
    ELSE last.method \in LegacyMethods \/ Len(last.frames) < 2

\* the duration the detector computes for the found pair k of the last call
FoundDuration(k) ==
    FxDiv(OriginalIndex(analyzer, last.pairs[k][2], last.start_frame, last.downsample_factor)
            - OriginalIndex(analyzer, last.pairs[k][1], last.start_frame,
                            last.downsample_factor),
          video.fps)

\* C11: when frames were sampled and the search ran, and no pair reached the
\* threshold or every pair found is shorter than 0.5 s or more than 20% off a
\* numeric desired_length, detect_loops returns [] without raising and
\* get_best_loop returns None.
C11_EmptyIsNotAnError ==
    (/\ Called
     /\ Len(last.frames) >= 1
     /\ MethodServed
     /\ \A k \in 1..Len(last.pairs) :
            \/ 2 * FoundDuration(k) < SCALE
            \/ /\ ~IsNone(last.desired_length)
               /\ 10 * Abs(FoundDuration(k) - Val(last.desired_length))
                    > 2 * Val(last.desired_length))
    => /\ last.outcome = "ok"
       /\ last.result = <<>>
       /\ detected_loops = <<>>
       /\ last.op = "get_best_loop" => last.best = None

\* get_best_loop finds pairs, none shorter than 0.5 s, all of them off the
\* desired length, and returns None
C11_Witness ==
    /\ last.op = "get_best_loop"
    /\ MethodServed
    /\ Len(last.pairs) >= 1
    /\ \A k \in 1..Len(last.pairs) : 2 * FoundDuration(k) >= SCALE
    /\ last.outcome = "ok"
    /\ last.result = <<>>
    /\ last.best = None

\* The analyzer cli.main builds for --gpu/--no-gpu and --method
CliAnalyzer(gpu, method) ==
    IF gpu /\ method \in GpuMethods THEN "GPUFrameAnalyzer" ELSE "FrameAnalyzer"

\* C12: for every --method choice and each --gpu/--no-gpu setting, detect_loops
\* on the analyzer the CLI builds completes without an unknown-method error;
\* in particular on a FrameAnalyzer with method "fast_hash".
C12_EveryMethodServed ==
    (/\ Called
     /\ last.method \in Methods
     /\ \E gpu \in BOOLEAN : analyzer.kind = CliAnalyzer(gpu, last.method))
    => last.outcome # "ValueError"

\* the tuples of five strictly increasing positions of the sampled loop
\* [i, j] that hold both endpoints
EndpointSamples(i, j) ==
    {<<i, t[1], t[2], t[3], j>> :
        t \in {u \in ((i + 1)..(j - 1)) \X ((i + 1)..(j - 1)) \X ((i + 1)..(j - 1)) :
                  u[1] < u[2] /\ u[2] < u[3]}}

\* the frames of the last call at the positions p
FramesAt(p) == [t \in 1..Len(p) |-> last.frames[p[t] + 1]]
Still(frames) == \A t \in 1..(Len(frames) - 1) : FrameAbsDiff(frames[t], frames[t + 1]) = 0

\* the quality q is the blend of the similarity s with the consistency of the
\* frames at p, which is within [0, 1] and 1 when the frames do not differ
BlendsAt(q, s, p) ==
    /\ _analyze_motion_consistency(FramesAt(p)) >= 0
    /\ _analyze_motion_consistency(FramesAt(p)) <= SCALE
    /\ Still(FramesAt(p)) => _analyze_motion_consistency(FramesAt(p)) = SCALE
    /\ q = FxMul(QualitySimWeight, s)
             + FxMul(QualityMotionWeight, _analyze_motion_consistency(FramesAt(p)))

\* C25: the quality of a loop is its similarity s when the sampled loop
\* [i, j] has at most 10 frames, and 0.7*s + 0.3*C otherwise, with C in [0, 1]
\* computed from 5 frames at strictly increasing positions of [i, j] that
\* include i and j (C = 1 when the frames do not differ).
C25_LoopQuality ==
    \A k \in 1..Len(Returned) :
        IF Returned[k].end_idx - Returned[k].start_idx + 1 <= MotionMinFrames
        THEN Returned[k].quality_score = Returned[k].similarity_score
        ELSE \E p \in EndpointSamples(Returned[k].start_idx, Returned[k].end_idx) :
                BlendsAt(Returned[k].quality_score, Returned[k].similarity_score, p)

\* a call that returns a loop of at most 10 sampled frames and one of more
\* than 10 whose frames move unevenly (0 < C < 1)
C25_Witness ==
    /\ \E k \in 1..Len(Returned) :
          Returned[k].end_idx - Returned[k].start_idx + 1 <= MotionMinFrames
    /\ \E k \in 1..Len(Returned) :
          /\ Returned[k].end_idx - Returned[k].start_idx + 1 > MotionMinFrames
          /\ Returned[k].quality_score
               < FxMul(QualitySimWeight, Returned[k].similarity_score) + QualityMotionWeight
          /\ Returned[k].quality_score > FxMul(QualitySimWeight, Returned[k].similarity_score)

----------------------------------------------------------------------------
\* Frame sampling on its own: extract_frames called directly on the analyzer,
\* any number of times

MaxStride == 3
Strides == 1..MaxStride
SampleStarts == {0 - 1, 0, 1, 3}
SampleEnds == {None, Some(1), Some(2), Some(MaxFrames - 1), Some(MaxFrames + 2)}

\* analyzer.extract_frames(video, start_frame, end_frame, downsample_factor)
\* on a GPUFrameAnalyzer
ExtractFramesGpu(start_frame, end_frame, downsample_factor) ==
    /\ analyzer.kind = "GPUFrameAnalyzer"
    /\ \E r \in {GpuExtractFrames(analyzer, video, start_frame, end_frame, downsample_factor)} :
            /\ analyzer' = r.an
            /\ last' = [op |-> "extract_frames", start_frame |-> start_frame,
                        end_frame |-> end_frame, downsample_factor |-> downsample_factor,
                        outcome |-> r.outcome, frames |-> r.frames, pos |-> r.pos]
            /\ UNCHANGED <<video, detected_loops>>

\* analyzer.extract_frames(video, start_frame, end_frame) on a FrameAnalyzer
ExtractFramesCpu(start_frame, end_frame) ==
    /\ analyzer.kind = "FrameAnalyzer"
    /\ \E r \in {CpuExtractFrames(analyzer, video, start_frame, end_frame)} :
            /\ analyzer' = r.an
            /\ last' = [op |-> "extract_frames", start_frame |-> start_frame,
                        end_frame |-> end_frame, downsample_factor |-> 1,
                        outcome |-> r.outcome, frames |-> r.frames, pos |-> r.pos]
            /\ UNCHANGED <<video, detected_loops>>

NextSample ==
    \/ \E start_frame \in SampleStarts, end_frame \in SampleEnds,
          downsample_factor \in Strides :
            ExtractFramesGpu(start_frame, end_frame, downsample_factor)
    \/ \E start_frame \in SampleStarts, end_frame \in SampleEnds :
            ExtractFramesCpu(start_frame, end_frame)

SpecSample == Init /\ [][NextSample]_vars

SampledGpu ==
    last.op = "extract_frames" /\ last.outcome = "ok" /\ analyzer.kind = "GPUFrameAnalyzer"

\* the end_frame of the last extract_frames call (None: the whole video)
RequestedEnd == IF IsNone(last.end_frame) THEN video.total_frames ELSE Val(last.end_frame)

\* the original index at which the decoder stops delivering frames
DecoderStop == Len(video.frames)

\* C3: after GPUFrameAnalyzer.extract_frames(start_frame, end_frame, stride)
\* with stride >= 1 the index mapping has one entry per returned frame, its
\* k-th entry is start_frame + k * stride, the entries are strictly increasing
\* and all below end_frame; when the decoder stops at original index f the
\* sample holds exactly the grid indices below f, each with the frame the
\* video has at that index.
C3_IndexMapping ==
    SampledGpu =>
        LET idx == analyzer.original_frame_indices
            n == Len(last.frames)
        IN  /\ Len(idx) = n
            /\ analyzer.frames_cache = last.frames
            /\ \A k \in 1..n :
                 idx[k] = last.start_frame + (k - 1) * last.downsample_factor
            /\ \A k \in 1..n : \A l \in 1..n : k < l => idx[k] < idx[l]
            /\ \A k \in 1..n : idx[k] < RequestedEnd
            /\ {idx[k] : k \in 1..n}
                 = {g \in last.start_frame..(Min(RequestedEnd, DecoderStop) - 1) :
                      (g - last.start_frame) % last.downsample_factor = 0}
            /\ \A k \in 1..n : last.frames[k] = video.frames[idx[k] + 1]

\* a strided sample of a truncated stream, taken from inside the video, whose
\* window reaches past the last frame the decoder delivers
C3_Witness ==
    /\ SampledGpu
    /\ last.downsample_factor = 2
    /\ last.start_frame = 1
    /\ DecoderStop < video.total_frames
    /\ RequestedEnd > DecoderStop
    /\ Len(last.frames) >= 3

\* the range of the last extract_frames call is invalid: start_frame < 0,
\* start_frame >= total_frames, or start_frame >= end_frame once end_frame is
\* clamped to total_frames
InvalidRange ==
    \/ last.start_frame < 0
    \/ last.start_frame >= video.total_frames
    \/ last.start_frame >= Min(RequestedEnd, video.total_frames)

\* C15: extract_frames of either analyzer raises ValueError when the range is
\* invalid, and the call leaves frames_cache and the index mapping of the
\* analyzer exactly as they were before it.
C15_InvalidRangeRaises ==
    [][(last'.op = "extract_frames" /\ InvalidRange')
         => /\ last'.outcome = "ValueError"
            /\ analyzer'.frames_cache = analyzer.frames_cache
            /\ analyzer'.has_indices = analyzer.has_indices
            /\ analyzer'.original_frame_indices = analyzer.original_frame_indices]_vars

\* a GPU analyzer that holds a strided sample of an earlier call after a call
\* whose start_frame lies beyond the video
C15_Witness ==
    /\ last.op = "extract_frames"
    /\ analyzer.kind = "GPUFrameAnalyzer"
    /\ last.start_frame >= video.total_frames
    /\ last.outcome = "ValueError"
    /\ Len(analyzer.frames_cache) >= 2
    /\ analyzer.original_frame_indices[2] - analyzer.original_frame_indices[1] = 2

----------------------------------------------------------------------------
\* Pair search on its own: the search called directly on an analyzer that holds
\* a frame list in frames_cache

MaxSearchFrames == 3
SearchImages == {1, 3, 4, 6, 7}
FrameLists == UNION {[1..n -> SearchImages] : n \in 0..MaxSearchFrames}
SearchThresholds == {0, 9000, 9800, SCALE}
BatchSizes == {1, DefaultBatchSize}

\* the analyzer after extract_frames over the whole video (on an empty video
\* the call raises and the analyzer stays as built)
Extracted(an, v) ==
    IF an.kind = "GPUFrameAnalyzer" THEN GpuExtractFrames(an, v, 0, None, 1).an
    ELSE CpuExtractFrames(an, v, 0, None).an

InitSearch ==
    /\ video \in {[frames |-> fl, total_frames |-> Len(fl), fps |-> 4] : fl \in FrameLists}
    /\ analyzer \in {Extracted(NewAnalyzer(k, t), video) :
                        k \in AnalyzerKinds, t \in SearchThresholds}
    /\ detected_loops = <<>>
    /\ last = [op |-> "init"]

\* analyzer.find_similar_frames_optimized(None, method, batch_size)
FindSimilarFramesOptimized(method, batch_size) ==
    /\ analyzer.kind = "GPUFrameAnalyzer"
    /\ \E r \in {find_similar_frames_optimized(analyzer.frames_cache, method, batch_size,
                                           analyzer.similarity_threshold)} :
            /\ last' = [op |-> "find_similar_frames", method |-> method,
                        batch_size |-> Some(batch_size), frames |-> analyzer.frames_cache,
                        outcome |-> r.outcome, pairs |-> r.pairs]
            /\ UNCHANGED <<video, analyzer, detected_loops>>

\* analyzer.find_similar_frames(None, method)
FindSimilarFrames(method) ==
    /\ analyzer.kind = "FrameAnalyzer"
    /\ \E r \in {find_similar_frames(analyzer.frames_cache, method,
                                 analyzer.similarity_threshold)} :
            /\ last' = [op |-> "find_similar_frames", method |-> method,
                        batch_size |-> None, frames |-> analyzer.frames_cache,
                        outcome |-> r.outcome, pairs |-> r.pairs]
            /\ UNCHANGED <<video, analyzer, detected_loops>>

NextSearch ==
    \/ \E method \in Methods, batch_size \in BatchSizes :
            FindSimilarFramesOptimized(method, batch_size)
    \/ \E method \in Methods : FindSimilarFrames(method)

SpecSearch == InitSearch /\ [][NextSearch]_vars

Searched == last.op = "find_similar_frames" /\ last.outcome = "ok"

\* the pair at position k of the last search: its frames' SSIM
PairSsim(k) ==
    FrameSsim(last.frames[last.pairs[k][1] + 1], last.frames[last.pairs[k][2] + 1])

PairIndicesValid(k) ==
    /\ 0 <= last.pairs[k][1]
    /\ last.pairs[k][1] < last.pairs[k][2]
    /\ last.pairs[k][2] < Len(last.frames)

\* C4 as stated: for every strategy and every threshold tau in [0, 1], each
\* pair (i, j, s) the search returns has 0 <= i < j < N and s >= tau.
C4_EveryScoreReachesThreshold ==
    Searched =>
        \A k \in 1..Len(last.pairs) :
            PairIndicesValid(k) /\ last.pairs[k][3] >= analyzer.similarity_threshold

\* C4, amended: each pair (i, j, s) the search returns has 0 <= i < j < N; its
\* s is at least tau under every strategy but hybrid, where the SSIM of the
\* pair is at least tau and s is at least 0.3 * max(0.8, tau - 0.1) + 0.7 * tau.
C4_PairsValidAndScored ==
    Searched =>
        \A k \in 1..Len(last.pairs) :
            LET tau == analyzer.similarity_threshold
            IN  /\ PairIndicesValid(k)
                /\ IF last.method = "hybrid"
                   THEN /\ PairSsim(k) >= tau
                        /\ last.pairs[k][3]
                             >= FxMul(HybridHashWeight, Max(HybridFloor, tau - HybridRelax))
                                  + FxMul(HybridSsimWeight, tau)
                   ELSE last.pairs[k][3] >= tau

\* a hybrid search that returns a pair whose score is below the threshold
C4_Witness ==
    /\ Searched
    /\ last.method = "hybrid"
    /\ \E k \in 1..Len(last.pairs) :
          /\ last.pairs[k][3] < analyzer.similarity_threshold
          /\ PairSsim(k) >= analyzer.similarity_threshold

\* C5: hybrid at threshold tau emits the pair (i, j) iff hash_sim(i, j) >=
\* max(0.8, tau - 0.1) and SSIM(i, j) >= tau, once, with the score
\* 0.3 * hash_sim + 0.7 * SSIM; every pair it emits is emitted by fast_hash
\* run at the threshold max(0.8, tau - 0.1).
C5_HybridEmits ==
    (Searched /\ last.method = "hybrid") =>
        LET tau == analyzer.similarity_threshold
            relaxed == Max(HybridFloor, tau - HybridRelax)
            N == Len(last.frames)
            hash_sim(i, j) == FrameHashSimilarity(last.frames[i + 1], last.frames[j + 1])
            ssim(i, j) == FrameSsim(last.frames[i + 1], last.frames[j + 1])
            emitted == {last.pairs[k] : k \in 1..Len(last.pairs)}
            by_hash == _find_similar_by_hash(last.frames, relaxed)
        IN  /\ emitted
                 = {<<i, j, FxMul(HybridHashWeight, hash_sim(i, j))
                              + FxMul(HybridSsimWeight, ssim(i, j))>> :
                      <<i, j>> \in {q \in (0..(N - 1)) \X (0..(N - 1)) :
                                      /\ q[1] < q[2]
                                      /\ hash_sim(q[1], q[2]) >= relaxed
                                      /\ ssim(q[1], q[2]) >= tau}}
            /\ Cardinality(emitted) = Len(last.pairs)
            /\ \A k \in 1..Len(last.pairs) :
                 \E h \in 1..Len(by_hash) :
                    by_hash[h][1] = last.pairs[k][1] /\ by_hash[h][2] = last.pairs[k][2]

\* a hybrid search that emits a pair and drops another that passes the hash
\* filter and fails the SSIM check
C5_Witness ==
    /\ Searched
    /\ last.method = "hybrid"
    /\ Len(last.pairs) >= 1
    /\ \E i \in 1..Len(last.frames), j \in 1..Len(last.frames) :
          /\ i < j
          /\ FrameHashSimilarity(last.frames[i], last.frames[j])
               >= Max(HybridFloor, analyzer.similarity_threshold - HybridRelax)
          /\ FrameSsim(last.frames[i], last.frames[j]) < analyzer.similarity_threshold

\* pair p is placed before pair q by the order (similarity descending, i
\* ascending, j ascending)
CanonicalBefore(p, q) ==
    \/ p[3] > q[3]
    \/ p[3] = q[3] /\ p[1] < q[1]
    \/ p[3] = q[3] /\ p[1] = q[1] /\ p[2] < q[2]

IndexPairs(pairs) == {<<pairs[k][1], pairs[k][2]>> : k \in 1..Len(pairs)}

\* the last search run again on the same frame list with the same method and
\* batch size at the threshold tau
SearchedAt(tau) ==
    IF IsNone(last.batch_size) THEN find_similar_frames(last.frames, last.method, tau)
    ELSE find_similar_frames_optimized(last.frames, last.method, Val(last.batch_size), tau)

\* C19: threshold monotonicity: for a fixed frame list and a fixed strategy,
\* the index pairs emitted at a threshold are among those emitted at every
\* lower threshold.
C19_ThresholdMonotone ==
    Searched =>
        \A tau1 \in SearchThresholds :
            tau1 <= analyzer.similarity_threshold =>
                IndexPairs(last.pairs) \subseteq IndexPairs(SearchedAt(tau1).pairs)

\* a hybrid search that emits a pair and, at a lower threshold, would emit a
\* pair more
C19_Witness ==
    /\ Searched
    /\ last.method = "hybrid"
    /\ Len(last.pairs) >= 1
    /\ \E tau1 \in SearchThresholds :
          /\ tau1 < analyzer.similarity_threshold
          /\ IndexPairs(last.pairs) # IndexPairs(SearchedAt(tau1).pairs)


\* the number of bit positions, among all 64, in which the hashes of two
\* frames differ
HammingDistance(a, b) ==
    Cardinality((FrameHash(a) \ FrameHash(b)) \cup (FrameHash(b) \ FrameHash(a)))

\* C24: in fast_hash the similarity of every pair is 1 - d/64 with d the
\* Hamming distance of the two 64-bit hashes, bit 63 included.
C24_TrueHammingSimilarity ==
    (Searched /\ last.method = "fast_hash") =>
        \A k \in 1..Len(last.pairs) :
            last.pairs[k][3]
              = SCALE - FxDiv(HammingDistance(last.frames[last.pairs[k][1] + 1],
                                              last.frames[last.pairs[k][2] + 1]), HashBits)

\* batch sizes from one pair per batch to more than a row holds
AnyBatchSizes == (1..(MaxSearchFrames + 1)) \cup {DefaultBatchSize}

\* the index pairs a batch search of n frames evaluates, in the order of
\* evaluation, and how often it evaluates the pair q
Evaluated(n, batch_size) == BatchRowsFrom(0, n, batch_size)
TimesEvaluated(n, batch_size, q) ==
    Cardinality({k \in 1..Len(Evaluated(n, batch_size)) : Evaluated(n, batch_size)[k] = q})

BatchSearched == Searched /\ last.method = "batch_ssim"

\* C29: for every batch_size >= 1 the batch search evaluates each index pair
\* i < j exactly once, N*(N-1)/2 comparisons in all, and returns the same list
\* (the same pairs in the same order) as with any other batch_size.
C29_BatchSizeIndependent ==
    BatchSearched =>
        LET n == Len(last.frames)
        IN  \A b \in AnyBatchSizes :
                /\ Len(Evaluated(n, b)) = (n * (n - 1)) \div 2
                /\ \A i \in 0..(n - 1) : \A j \in (i + 1)..(n - 1) :
                        TimesEvaluated(n, b, <<i, j>>) = 1
                /\ last.pairs = _find_similar_by_batch_ssim(last.frames, b,
                                                            analyzer.similarity_threshold)

\* a search of three frames with one pair per batch that returns the pair of
\* the first and the last frame, which lies beyond the first batch of its row
C29_Witness ==
    /\ BatchSearched
    /\ last.batch_size = Some(1)
    /\ Len(last.frames) = MaxSearchFrames
    /\ \E k \in 1..Len(last.pairs) :
            last.pairs[k][1] = 0 /\ last.pairs[k][2] = Len(last.frames) - 1

----------------------------------------------------------------------------
\* The hybrid search step by step: _find_similar_hybrid writes the relaxed
\* threshold into self.similarity_threshold, runs the hash pass, writes the old
\* threshold back and verifies the hash candidates. An exception raised while
\* the hash pass runs (KeyboardInterrupt, which cli.py handles, or an error of
\* the image library on a frame) leaves the call at that point.

\* the second pass of _find_similar_hybrid: SSIM verification of the hash
\* candidates against self.similarity_threshold, then the sort by score
HybridSsimPass(frames, hash_candidates, threshold) ==
    LET checked == [k \in 1..Len(hash_candidates) |->
                      <<hash_candidates[k][1], hash_candidates[k][2],
                        hash_candidates[k][3],
                        FrameSsim(frames[hash_candidates[k][1] + 1],
                                  frames[hash_candidates[k][2] + 1])>>]
        verified == SelectSeq(checked, LAMBDA q : HybridVerified(q[4], threshold))
    IN  SortPairs([k \in 1..Len(verified) |->
                     <<verified[k][1], verified[k][2],
                       HybridScore(verified[k][3], verified[k][4])>>])

HybridCall(pc, entry, old_threshold, hash_candidates, outcome, pairs) ==
    [op |-> "find_similar_hybrid", pc |-> pc, entry |-> entry,
     old_threshold |-> old_threshold, hash_candidates |-> hash_candidates,
     outcome |-> outcome, pairs |-> pairs]

InitHybrid ==
    /\ video \in {[frames |-> fl, total_frames |-> Len(fl), fps |-> 4] : fl \in FrameLists}
    /\ analyzer \in {Extracted(NewAnalyzer("GPUFrameAnalyzer", t), video) :
                        t \in SearchThresholds}
    /\ detected_loops = <<>>
    /\ last = HybridCall("idle", analyzer.similarity_threshold,
                         analyzer.similarity_threshold, <<>>, "none", <<>>)

\* analyzer.find_similar_frames_optimized(None, "hybrid") up to the start of
\* the hash pass: without frames the call raises before _find_similar_hybrid
\* is entered; otherwise self.similarity_threshold = hash_threshold
HybridEnter ==
    /\ last.pc = "idle"
    /\ IF Len(analyzer.frames_cache) = 0
       THEN /\ last' = HybridCall("idle", analyzer.similarity_threshold,
                                  analyzer.similarity_threshold, <<>>, "ValueError", <<>>)
            /\ UNCHANGED analyzer
       ELSE /\ last' = HybridCall("hash", analyzer.similarity_threshold,
                                  analyzer.similarity_threshold, <<>>, "running", <<>>)
            /\ analyzer' = [analyzer EXCEPT !.similarity_threshold =
                                HybridHashThreshold(analyzer.similarity_threshold)]
    /\ UNCHANGED <<video, detected_loops>>

\* hash_candidates = self._find_similar_by_hash(frames);
\* self.similarity_threshold = old_threshold; if not hash_candidates: return []
HybridHashPass ==
    /\ last.pc = "hash"
    /\ \E hc \in {_find_similar_by_hash(analyzer.frames_cache, analyzer.similarity_threshold)} :
            last' = IF Len(hc) = 0
                    THEN HybridCall("idle", last.entry, last.old_threshold, hc, "ok", <<>>)
                    ELSE HybridCall("verify", last.entry, last.old_threshold, hc,
                                    "running", <<>>)
    /\ analyzer' = [analyzer EXCEPT !.similarity_threshold = last.old_threshold]
    /\ UNCHANGED <<video, detected_loops>>

\* an exception raised inside self._find_similar_by_hash(frames): the call is
\* left at once, no handler and no finally clause on the way out
HybridHashRaises ==
    /\ last.pc = "hash"
    /\ last' = HybridCall("idle", last.entry, last.old_threshold, <<>>, "raised", <<>>)
    /\ UNCHANGED <<video, analyzer, detected_loops>>

\* the SSIM verification and the return of the verified pairs
HybridVerify ==
    /\ last.pc = "verify"
    /\ \E r \in {HybridSsimPass(analyzer.frames_cache, last.hash_candidates,
                                analyzer.similarity_threshold)} :
            last' = HybridCall("idle", last.entry, last.old_threshold,
                               last.hash_candidates, "ok", r)
    /\ UNCHANGED <<video, analyzer, detected_loops>>

NextHybrid ==
    \/ HybridEnter
    \/ HybridHashPass
    \/ HybridHashRaises
    \/ HybridVerify

SpecHybrid == InitHybrid /\ [][NextHybrid]_vars

\* _find_similar_hybrid has been entered and left
HybridExited == last.pc = "idle" /\ last.outcome \in {"ok", "raised"}

\* C27: on every exit from _find_similar_hybrid (normal return, early return
\* without hash candidates, exception during the hash pass) the analyzer's
\* similarity_threshold is the value it had when the call started.
C27_ThresholdRestored ==
    HybridExited => analyzer.similarity_threshold = last.entry

\* the calls that return compute what _find_similar_hybrid computes
HybridStepsAgree ==
    (last.pc = "idle" /\ last.outcome = "ok") =>
        last.pairs = _find_similar_hybrid(analyzer.frames_cache, DefaultBatchSize, last.entry)

----------------------------------------------------------------------------
\* Scenario S1: a 30 fps video whose frames 0..60 are identical to its frames
\* 60..120 and whose other frames are unrelated, analysed with stride 1,
\* threshold 0.98, the hybrid strategy and desired_length "auto".

S1 == [fps |-> 30, period |-> 60, threshold |-> 9800]

\* The frames of one period are mutually unrelated; those at the positions of
\* bright are brighter than the others.  extra frames follow frame 120.
S1Frame(k, bright) ==
    IF k > 2 * S1.period THEN 100 + (k - 2 * S1.period) + (S1.period - 1)
    ELSE IF (k % S1.period) \in bright THEN 200 + (k % S1.period)
    ELSE 100 + (k % S1.period)

S1Video(bright, extra) ==
    [frames |-> [n \in 1..(2 * S1.period + 1 + extra) |-> S1Frame(n - 1, bright)],
     total_frames |-> 2 * S1.period + 1 + extra, fps |-> S1.fps]

S1Brightened == SUBSET {0, 7, 15, 22, 30, 45}
S1Extras == {0, 2}

InitS1 ==
    /\ video \in {S1Video(bright, extra) : bright \in S1Brightened, extra \in S1Extras}
    /\ analyzer = NewAnalyzer("GPUFrameAnalyzer", S1.threshold)
    /\ detected_loops = <<>>
    /\ last = [op |-> "init"]

NextS1 == DetectLoops(None, None, 1, "hybrid")

SpecS1 == InitS1 /\ [][NextS1]_vars

\* C9 as stated: in scenario S1 detect_loops returns a non-empty list whose top
\* candidate has start_frame = 0, end_frame = 60 (within 1 frame) and boundary
\* similarity >= 0.99.
C9_TopIsFirstPeriod ==
    Called =>
        /\ Len(Returned) >= 1
        /\ Returned[1].start_frame = 0
        /\ Abs(Returned[1].end_frame - S1.period) <= 1
        /\ 100 * Returned[1].similarity_score >= 99 * SCALE

\* C9, amended: in scenario S1 detect_loops returns a non-empty list whose top
\* candidate has start_frame = 0, boundary similarity >= 0.99 and end_frame =
\* 60 or 120; it is the loop 0..120 over both periods unless the loop 0..60
\* has a quality_score of 1 itself.
C9_TopIsWholeRepeat ==
    Called =>
        /\ Len(Returned) >= 1
        /\ Returned[1].start_frame = 0
        /\ Returned[1].end_frame \in {S1.period, 2 * S1.period}
        /\ 100 * Returned[1].similarity_score >= 99 * SCALE
        /\ Returned[1].end_frame = S1.period <=>
             \E k \in 1..Len(Returned) :
                /\ Returned[k].start_frame = 0
                /\ Returned[k].end_frame = S1.period
                /\ Returned[k].quality_score = SCALE

\* a run of scenario S1 whose top candidate is the loop 0..120
C9_Witness ==
    /\ Called
    /\ Len(Returned) >= 2
    /\ Returned[1].start_frame = 0
    /\ Returned[1].end_frame = 2 * S1.period

----------------------------------------------------------------------------
\* Ranking on its own: _rank_loop_candidates called directly on candidate lists
\* (scenario S3: candidate A of 2 s and quality 0.92, candidate B of 5 s and
\* quality 0.95)

MaxRankLen == 3

\* a candidate dictionary as _analyze_loop_candidates builds it for a loop of
\* a 30 fps video sampled with stride 1
RankCandidate(start_frame, end_frame, quality) ==
    [start_frame |-> start_frame, end_frame |-> end_frame,
     start_time |-> FxDiv(start_frame, S1.fps), end_time |-> FxDiv(end_frame, S1.fps),
     duration |-> FxDiv(end_frame - start_frame, S1.fps),
     frame_count |-> end_frame - start_frame,
     similarity_score |-> quality, quality_score |-> quality,
     fps |-> S1.fps, downsample_factor |-> 1,
     start_idx |-> start_frame, end_idx |-> end_frame]

CandidateA == RankCandidate(0, 60, 9200)
CandidateB == RankCandidate(0, 150, 9500)
CandidateC == RankCandidate(30, 120, 9000)

RankLists == UNION {[1..n -> {CandidateA, CandidateB, CandidateC}] : n \in 0..MaxRankLen}
RankLengths == {None, Some(2 * SCALE), Some(3 * SCALE), Some(5 * SCALE)}

\* videos of a little over five seconds: a still, and a cycle of four frames,
\* both with loops of 2 s and of 5 s
RankVideos ==
    {PatternVideo(pat, 5 * fps + 1, fps, 0) : pat \in {<<1>>, <<1, 4, 3, 1>>}, fps \in FrameRates}

\* the arguments of the call about to be made are chosen at the start
InitRank ==
    /\ video \in RankVideos
    /\ analyzer = NewAnalyzer("GPUFrameAnalyzer", S1.threshold)
    /\ detected_loops = <<>>
    /\ last \in {[op |-> "init", candidates |-> candidates, desired_length |-> desired_length] :
                    candidates \in RankLists, desired_length \in RankLengths}

\* The list object passed to _rank_loop_candidates as the caller finds it after
\* the call: an empty list is left alone (`return []` builds a new one);
\* otherwise candidate['final_score'] is assigned on the dictionaries of the
\* list, candidates.sort(...) reorders the list itself and `return candidates`
\* hands back that same object.
PassedAfterRank(candidates, ranked) == IF Len(candidates) = 0 THEN candidates ELSE ranked

\* detector._rank_loop_candidates(candidates, desired_length)
RankLoopCandidates ==
    /\ last.op = "init"
    /\ \E r \in {_rank_loop_candidates(last.candidates, last.desired_length)} :
            last' = [op |-> "rank", candidates |-> last.candidates,
                     desired_length |-> last.desired_length, result |-> r,
                     passed |-> PassedAfterRank(last.candidates, r)]
    /\ UNCHANGED <<video, analyzer, detected_loops>>

\* either the ranking alone, or detector.detect_loops(video, desired_length =
\* ..., method = "hybrid"), which builds the candidates and ranks them
NextRank ==
    \/ RankLoopCandidates
    \/ DetectLoops(last.desired_length, None, 1, "hybrid")

SpecRank == InitRank /\ [][NextRank]_vars

\* the places of the candidates of a duration in a list; among CandidateA,
\* CandidateB and CandidateC, A is the one of 2 s and B the one of 5 s
Positions(ranked, duration) == {k \in 1..Len(ranked) : ranked[k].duration = duration}

\* candidates of both durations occur in `ranked`, every one of the first
\* before every one of the second
RankedBefore(ranked, first, second) ==
    /\ Positions(ranked, first) # {}
    /\ Positions(ranked, second) # {}
    /\ \A k \in Positions(ranked, first) : \A l \in Positions(ranked, second) : k < l

\* _rank_loop_candidates has been given a list with both A and B
RankedAB ==
    /\ last.op = "rank"
    /\ Positions(last.candidates, CandidateA.duration) # {}
    /\ Positions(last.candidates, CandidateB.duration) # {}

\* the pair search of a detect_loops call has found a loop of the duration
FoundLoop(duration) ==
    \E k \in 1..Len(last.pairs) :
        FxDiv(last.pairs[k][2] - last.pairs[k][1], video.fps) = duration

\* detect_loops has run on a video with a loop of 2 s and a loop of 5 s
DetectedAB ==
    /\ last.op = "detect_loops"
    /\ last.outcome = "ok"
    /\ FoundLoop(CandidateA.duration)
    /\ FoundLoop(CandidateB.duration)

C26_RankLeavesInputAlone ==
    last.op = "rank" => last.passed = last.candidates

----------------------------------------------------------------------------
\* The analysis window: detect_loops called with time and frame arguments of
\* every kind (negative, inside the video, beyond its end, absent)

\* detector.detect_loops(video, **args) with any arguments; previous records
\* the arguments of the detect_loops call made before it on the same objects
DetectLoopsCall(args) ==
    \E r \in {detect_loops(analyzer, detected_loops, video, args)} :
        /\ analyzer' = r.an
        /\ detected_loops' = r.detected_loops
        /\ last' = [op |-> "detect_loops", args |-> args,
                    previous |-> IF last.op = "detect_loops" THEN Some(last.args) ELSE None,
                    desired_length |-> args.desired_length,
                    downsample_factor |-> args.downsample_factor, method |-> args.method,
                    outcome |-> r.outcome, result |-> r.result,
                    start_frame |-> r.start_frame, end_frame |-> r.end_frame,
                    frames |-> r.frames, pos |-> r.pos, pairs |-> r.pairs]
        /\ UNCHANGED video

\* times in seconds (fixed-point) and frame numbers of the window arguments
WindowTimes == {0 - 3000, 0, 4000, 7500, 5 * SCALE}
WindowFrames == {0 - 1, 0, 1, 2, MaxFrames + 1}
Optional(S) == {None} \cup {Some(x) : x \in S}

WindowVideos ==
    {PatternVideo(<<1, 3>>, n, fps, missing) :
        n \in VideoLengths, fps \in FrameRates, missing \in Truncations}

InitWindow ==
    /\ video \in WindowVideos
    /\ analyzer \in {NewAnalyzer(k, t) : k \in AnalyzerKinds, t \in Thresholds}
    /\ detected_loops = <<>>
    /\ last = [op |-> "init"]

\* one call on the freshly built objects, with a method the analyzer serves
NextWindow ==
    /\ last.op = "init"
    /\ \E start_time \in WindowTimes, end_time \in Optional(WindowTimes),
          start_frame \in Optional(WindowFrames), end_frame \in Optional(WindowFrames) :
            DetectLoopsCall([DefaultArgs EXCEPT
                !.start_time = start_time, !.end_time = end_time,
                !.start_frame = start_frame, !.end_frame = end_frame,
                !.method = IF analyzer.kind = "GPUFrameAnalyzer" THEN "hybrid" ELSE "combined"])

SpecWindow == InitWindow /\ [][NextWindow]_vars

\* the window asked for: the frame argument when given, else floor(t * fps),
\* else (for the end) the whole video
AskedStart ==
    IF ~IsNone(last.args.start_frame) THEN Val(last.args.start_frame)
    ELSE (last.args.start_time * video.fps) \div SCALE
AskedEnd ==
    IF ~IsNone(last.args.end_frame) THEN Val(last.args.end_frame)
    ELSE IF ~IsNone(last.args.end_time) THEN (Val(last.args.end_time) * video.fps) \div SCALE
    ELSE video.total_frames

\* C13: the window detect_loops resolves is the one asked for (an explicit
\* frame argument before the time argument, times converted as floor(t * fps))
\* whenever that lies inside the video, and always satisfies
\* 0 <= start_frame < end_frame <= total_frames.
C13_WindowResolution ==
    last.op = "detect_loops" =>
        /\ 0 <= last.start_frame
        /\ last.start_frame < last.end_frame
        /\ last.end_frame <= video.total_frames
        /\ (0 <= AskedStart /\ AskedStart < video.total_frames)
              => last.start_frame = AskedStart
        /\ (last.start_frame < AskedEnd /\ AskedEnd <= video.total_frames)
              => last.end_frame = AskedEnd

\* start_time 0.4 s at 4 fps resolves to frame 1 (1.6 floored), and the
\* explicit end_frame 2 is used although end_time asks for more
C13_Witness ==
    /\ last.op = "detect_loops"
    /\ IsNone(last.args.start_frame)
    /\ last.args.start_time = 4000
    /\ last.args.end_frame = Some(2)
    /\ last.args.end_time = Some(5 * SCALE)
    /\ last.start_frame = 1
    /\ last.end_frame = 2

\* the window asked for is collapsed: its start is not below its end, or lies
\* beyond the last frame
Collapsed == AskedStart >= AskedEnd \/ AskedStart >= video.total_frames

\* C14: detect_loops called with a collapsed window fails with an
\* invalid-range error (ValueError) and analyses no frames.
C14_CollapsedWindowFails ==
    (last.op = "detect_loops" /\ Collapsed) =>
        /\ last.outcome = "ValueError"
        /\ Len(last.frames) = 0

\* the resolved window is not empty and the decoder has no frame at or after
\* its start
NothingDelivered ==
    /\ last.op = "detect_loops"
    /\ 0 <= last.start_frame
    /\ last.start_frame < last.end_frame
    /\ last.end_frame <= video.total_frames
    /\ FramesRead(video, last.start_frame, last.end_frame) = 0

\* C22: when the resolved window is not empty and the decoder delivers no
\* frame, detect_loops raises (ValueError, "No frames available for analysis")
\* and returns no list.
C22_NoFramesIsAnError ==
    NothingDelivered =>
        /\ last.outcome = "ValueError"
        /\ last.result = <<>>
        /\ detected_loops = <<>>

\* the window 3..5 of a video that reports five frames and delivers three
C22_Witness ==
    /\ NothingDelivered
    /\ last.start_frame = 3
    /\ last.end_frame = 5
    /\ Len(video.frames) = 3
    /\ Len(last.frames) = 0

----------------------------------------------------------------------------
\* Strides of every sign: extract_frames of the GPU analyzer and detect_loops
\* called with downsample_factor below 1 as well

AnyStrides == (0 - MaxStride)..MaxStride

\* one call on the freshly built objects
NextStride ==
    /\ last.op = "init"
    /\ \/ \E start_frame \in {0, 1}, end_frame \in SampleEnds, downsample_factor \in AnyStrides :
            ExtractFramesGpu(start_frame, end_frame, downsample_factor)
       \/ \E downsample_factor \in AnyStrides :
            DetectLoopsCall([DefaultArgs EXCEPT
                !.downsample_factor = downsample_factor,
                !.method = IF analyzer.kind = "GPUFrameAnalyzer" THEN "hybrid" ELSE "combined"])

SpecStride == Init /\ [][NextStride]_vars

\* C16: a call of GPUFrameAnalyzer.extract_frames or of detect_loops with
\* downsample_factor <= 0 raises ValueError and samples no frame.
C16_StrideRejected ==
    (last.op \in {"extract_frames", "detect_loops"} /\ last.downsample_factor < 1) =>
        /\ last.outcome = "ValueError"
        /\ Len(last.frames) = 0

----------------------------------------------------------------------------
\* History: detect_loops called again and again on the same detector and
\* analyzer, with arguments that change from call to call

HistoryArgs ==
    {[DefaultArgs EXCEPT !.desired_length = desired_length, !.start_frame = start_frame,
                         !.downsample_factor = downsample_factor, !.method = method] :
        desired_length \in DesiredLengths, start_frame \in StartFrames,
        downsample_factor \in DownsampleFactors, method \in {"hybrid", "combined"}}

InitHistory ==
    /\ video \in WindowVideos
    /\ analyzer \in {NewAnalyzer(k, S1.threshold) : k \in AnalyzerKinds}
    /\ detected_loops = <<>>
    /\ last = [op |-> "init"]

NextHistory == \E args \in HistoryArgs : DetectLoopsCall(args)

SpecHistory == InitHistory /\ [][NextHistory]_vars

\* the same call on a freshly built analyzer and detector
FreshCall ==
    detect_loops(NewAnalyzer(analyzer.kind, S1.threshold), <<>>, video, last.args)

C28_DetectedLoopsIsLastResult ==
    [][/\ (last'.op = "detect_loops" /\ last'.outcome = "ok") =>
             detected_loops' = last'.result
       /\ (last'.op = "detect_loops" /\ last'.outcome # "ok") =>
             detected_loops' = detected_loops]_vars

----------------------------------------------------------------------------
\* The command line (cli.main): one run of the program on the objects it
\* builds, from the validation of --loop-count to the last output written.

MaxLoopCount == 10
LoopCounts == {0, 1, 2, 3, MaxLoopCount, MaxLoopCount + 1}
CliMethods == {"combined", "hybrid"}
\* the indices for which VideoTrimmer.trim_video returns False
TrimFailures == {{}, {0}, {1}}

\* if loop_count < 1: sys.exit(1); if loop_count > 10: sys.exit(1)
LoopCountValid(loop_count) == loop_count >= 1 /\ loop_count <= MaxLoopCount

\* A path is the sequence of its components: names, and suffixes that start
\* with a dot. The OUTPUT arguments of the runs: any path is taken (click.Path()
\* without checks; ensure_output_directory only creates the parent directory).
Suffixes == {".mp4", ".mov"}
Outputs == {<<"out", ".mp4">>, <<"out", ".mov">>, <<"clip", ".mp4", ".mov">>}

\* os.path.splitext(output): the last suffix, if any, split off
SplitExt(output) ==
    IF Len(output) > 1 /\ output[Len(output)] \in Suffixes
    THEN [base_name |-> [k \in 1..(Len(output) - 1) |-> output[k]],
          ext |-> <<output[Len(output)]>>]
    ELSE [base_name |-> output, ext |-> <<>>]

\* f"{i+1:02d}"
DigitChars == <<"0", "1", "2", "3", "4", "5", "6", "7", "8", "9">>
TwoDigits(n) == <<DigitChars[(n \div 10) + 1], DigitChars[(n % 10) + 1]>>

\* current_output: the OUTPUT argument itself, or its base name, "_loop", the
\* two-digit number i + 1 and its extension
OutputPath(output, loop_count, i) ==
    IF loop_count = 1 THEN output
    ELSE SplitExt(output).base_name \o <<"_loop">> \o TwoDigits(i + 1) \o SplitExt(output).ext

\* metadata_file = current_output.replace('.mp4', '.json'): every occurrence
\* of ".mp4" replaced, a path without one unchanged
MetadataFile(current_output) ==
    [k \in 1..Len(current_output) |->
        IF current_output[k] = ".mp4" THEN ".json" ELSE current_output[k]]

\* for i in range(loops_to_create): the outputs trim_video wrote
CreatedOutputs(loops, output, loop_count, failed, save_metadata) ==
    LET loops_to_create == Min(loop_count, Len(loops))
        attempts == [k \in 1..loops_to_create |->
                       [index |-> k - 1, path |-> OutputPath(output, loop_count, k - 1),
                        loop |-> loops[k],
                        metadata_file |->
                            IF save_metadata
                            THEN Some(MetadataFile(OutputPath(output, loop_count, k - 1)))
                            ELSE None]]
    IN  SelectSeq(attempts, LAMBDA a : a.index \notin failed)

\* main after detect_loops returned or raised (r): the exit status and the
\* outputs written, each with the metadata file written after it
MainRun(r, output, loop_count, failed, save_metadata) ==
    IF r.outcome # "ok" THEN [exit_code |-> 1, outputs |-> <<>>]
    ELSE IF Len(r.result) = 0 THEN [exit_code |-> 1, outputs |-> <<>>]
    ELSE [exit_code |-> 0,
          outputs |-> CreatedOutputs(r.result, output, loop_count, failed, save_metadata)]

InitCli ==
    /\ video \in Videos
    /\ analyzer \in {NewAnalyzer(k, t) : k \in AnalyzerKinds, t \in Thresholds}
    /\ detected_loops = <<>>
    /\ last = [op |-> "init"]

\* loopycut INPUT output --loop-count loop_count --gpu/--no-gpu --method method
\* --save-metadata/--no-save-metadata
Main(output, loop_count, gpu, method, failed, save_metadata) ==
    /\ last.op = "init"
    /\ analyzer.kind = CliAnalyzer(gpu, method)
    /\ IF ~LoopCountValid(loop_count)
       THEN /\ last' = [op |-> "main", output |-> output, save_metadata |-> save_metadata,
                        loop_count |-> loop_count, gpu |-> gpu,
                        method |-> method, failed |-> failed, outcome |-> "not called",
                        loops |-> <<>>, exit_code |-> 1, outputs |-> <<>>]
            /\ UNCHANGED <<video, analyzer, detected_loops>>
       ELSE \E r \in {detect_loops(analyzer, detected_loops, video,
                                   [DefaultArgs EXCEPT !.method = method])} :
              \E run \in {MainRun(r, output, loop_count, failed, save_metadata)} :
                /\ analyzer' = r.an
                /\ detected_loops' = r.detected_loops
                /\ last' = [op |-> "main", output |-> output,
                            save_metadata |-> save_metadata,
                            loop_count |-> loop_count, gpu |-> gpu,
                            method |-> method, failed |-> failed, outcome |-> r.outcome,
                            loops |-> r.result, exit_code |-> run.exit_code,
                            outputs |-> run.outputs]
                /\ UNCHANGED video

NextCli ==
    \E output \in Outputs, loop_count \in LoopCounts, gpu \in BOOLEAN, method \in CliMethods,
       failed \in TrimFailures, save_metadata \in BOOLEAN :
        Main(output, loop_count, gpu, method, failed, save_metadata)

SpecCli == InitCli /\ [][NextCli]_vars

\* a run with a valid loop count in which detect_loops returned its list and
\* no trim failed
Ran ==
    /\ last.op = "main"
    /\ LoopCountValid(last.loop_count)
    /\ last.outcome = "ok"
    /\ last.failed = {}

\* C20: with 1 <= loop_count <= 10 the CLI produces outputs for exactly the
\* first min(loop_count, len(loops)) candidates of the ranked list, in
\* descending final_score order, pairwise distinct candidates at pairwise
\* distinct paths; with fewer candidates than loop_count it produces those
\* and does not fail.
C20_MultiLoopOutput ==
    Ran =>
        /\ last.exit_code = 0
        /\ Len(last.outputs) = Min(last.loop_count, Len(last.loops))
        /\ \A k \in 1..Len(last.outputs) : last.outputs[k].loop = last.loops[k]
        /\ \A k \in 1..(Len(last.outputs) - 1) :
              last.outputs[k].loop.final_score >= last.outputs[k + 1].loop.final_score
        /\ \A k \in 1..Len(last.outputs), l \in 1..Len(last.outputs) :
              k # l => /\ last.outputs[k].loop # last.outputs[l].loop
                       /\ last.outputs[k].path # last.outputs[l].path

\* C30: for every output path the CLI accepts, the metadata file written for
\* a loop is at a path other than that loop's video and other than every other
\* loop's video of the run.
C30_MetadataBesideVideo ==
    last.op = "main" =>
        \A k \in 1..Len(last.outputs), l \in 1..Len(last.outputs) :
            last.outputs[k].metadata_file # Some(last.outputs[l].path)

----------------------------------------------------------------------------
\* Cancellation.  detect_loops takes no cancellation argument; the signal the
\* program has is the KeyboardInterrupt Python raises in the main thread
\* between two instructions (cli.main catches it, prints "Operation cancelled
\* by user" and exits with status 1).  One call of detect_loops, in the steps
\* an interrupt can fall between: the analysis (extraction, pair search,
\* candidates, ranking: lines 62-108), the store of line 110, the return of
\* line 111.

CancelArgs ==
    {[DefaultArgs EXCEPT !.desired_length = desired_length, !.method = method] :
        desired_length \in DesiredLengths, method \in CliMethods}

InitCancel ==
    /\ video \in Videos
    /\ analyzer \in {NewAnalyzer(k, t) : k \in AnalyzerKinds, t \in Thresholds}
    /\ detected_loops = <<>>
    /\ last = [op |-> "init"]

\* the state of the call at one of its steps
Running(pc, args, run, interrupted, outcome, result) ==
    [op |-> "detect_loops", pc |-> pc, args |-> args, run |-> run,
     interrupted |-> interrupted, outcome |-> outcome, result |-> result]

\* detector.detect_loops(video, ...) is entered; run is what the call computes
\* when nothing interrupts it
CallDetectLoops ==
    /\ last.op = "init"
    /\ \E args \in CancelArgs :
          last' = Running("called", args, detect_loops(analyzer, detected_loops, video, args),
                          FALSE, "running", <<>>)
    /\ UNCHANGED <<video, analyzer, detected_loops>>

\* lines 62-108: an exception leaves the call, no similar pair returns [],
\* otherwise the ranked list is at hand
Analyse ==
    /\ last.op = "detect_loops"
    /\ last.pc = "called"
    /\ analyzer' = last.run.an
    /\ last' = IF last.run.outcome # "ok"
               THEN Running("raised", last.args, last.run, FALSE, last.run.outcome, <<>>)
               ELSE IF Len(last.run.pairs) = 0
               THEN Running("returned", last.args, last.run, FALSE, "ok", <<>>)
               ELSE Running("ranked", last.args, last.run, FALSE, "running", <<>>)
    /\ UNCHANGED <<video, detected_loops>>

\* line 110: self.detected_loops = ranked_loops
Store ==
    /\ last.op = "detect_loops"
    /\ last.pc = "ranked"
    /\ detected_loops' = last.run.result
    /\ last' = Running("stored", last.args, last.run, FALSE, "running", <<>>)
    /\ UNCHANGED <<video, analyzer>>

\* line 111: return ranked_loops
Return ==
    /\ last.op = "detect_loops"
    /\ last.pc = "stored"
    /\ last' = Running("returned", last.args, last.run, FALSE, "ok", last.run.result)
    /\ UNCHANGED <<video, analyzer, detected_loops>>

\* KeyboardInterrupt raised in the running call: during the analysis (the
\* analyzer then holds the frames of this call or not yet), before the store,
\* or between the store and the return
Interrupt ==
    /\ last.op = "detect_loops"
    /\ last.pc \in {"called", "ranked", "stored"}
    /\ analyzer' \in (IF last.pc = "called" THEN {analyzer, last.run.an} ELSE {analyzer})
    /\ last' = Running("raised", last.args, last.run, TRUE, "KeyboardInterrupt", <<>>)
    /\ UNCHANGED <<video, detected_loops>>

NextCancel == CallDetectLoops \/ Analyse \/ Store \/ Return \/ Interrupt

SpecCancel == InitCancel /\ [][NextCancel]_vars

\* C23: once the cancellation signal is tripped during a detect_loops run, the
\* run stops, surfaces the cancellation, and no candidate list is returned or
\* stored.
C23_CancelDiscards ==
    (last.op = "detect_loops" /\ last.interrupted) =>
        /\ last.pc = "raised"
        /\ last.outcome = "KeyboardInterrupt"
        /\ last.result = <<>>
        /\ detected_loops = <<>>

----------------------------------------------------------------------------
\* utils.parse_time_string: the second definition of the module (line 140),
\* the one the name is bound to.  A string is the sequence of its characters.

DecimalDigits == {"0", "1", "2", "3", "4", "5", "6", "7", "8", "9"}
DigitValue(c) ==
    CASE c = "0" -> 0 [] c = "1" -> 1 [] c = "2" -> 2 [] c = "3" -> 3 [] c = "4" -> 4
      [] c = "5" -> 5 [] c = "6" -> 6 [] c = "7" -> 7 [] c = "8" -> 8 [] c = "9" -> 9

\* the position of the first character of s that is in C, 0 if there is none
FirstIndex(s, C) ==
    IF \E k \in 1..Len(s) : s[k] \in C
    THEN CHOOSE k \in 1..Len(s) : s[k] \in C /\ \A l \in 1..(k - 1) : s[l] \notin C
    ELSE 0

LastIndex(s, C) ==
    IF \E k \in 1..Len(s) : s[k] \in C
    THEN CHOOSE k \in 1..Len(s) : s[k] \in C /\ \A l \in (k + 1)..Len(s) : s[l] \notin C
    ELSE 0

\* s[a - 1 : b] of Python (1-based, both ends included), empty when b < a
Slice(s, a, b) == [k \in 1..(b - a + 1) |-> s[a + k - 1]]

\* float() and int() ignore leading and trailing whitespace
Whitespace == {" "}
Blank(s) == \A k \in 1..Len(s) : s[k] \in Whitespace
NonBlank(s) == {s[k] : k \in 1..Len(s)} \ Whitespace
Strip(s) ==
    IF Blank(s) THEN <<>> ELSE Slice(s, FirstIndex(s, NonBlank(s)), LastIndex(s, NonBlank(s)))

\* str.lower() on the letters float() knows
Lower(c) ==
    CASE c = "E" -> "e" [] c = "I" -> "i" [] c = "N" -> "n" [] c = "F" -> "f"
      [] c = "A" -> "a" [] c = "T" -> "t" [] c = "Y" -> "y" [] OTHER -> c
LowerAll(s) == [k \in 1..Len(s) |-> Lower(s[k])]

\* digits, single underscores allowed between them
IsDigitPart(s) ==
    /\ Len(s) >= 1
    /\ s[1] \in DecimalDigits
    /\ s[Len(s)] \in DecimalDigits
    /\ \A k \in 1..Len(s) : s[k] \in DecimalDigits \cup {"_"}
    /\ \A k \in 1..(Len(s) - 1) : ~(s[k] = "_" /\ s[k + 1] = "_")

RECURSIVE NatValue(_)
\* the number a sequence of digits writes
NatValue(d) ==
    IF Len(d) = 0 THEN 0
    ELSE NatValue(Slice(d, 1, Len(d) - 1)) * 10 + DigitValue(d[Len(d)])

DigitPartValue(s) == NatValue(SelectSeq(s, LAMBDA c : c \in DecimalDigits))

\* the digits after the point as a fixed-point fraction: the first four
FractionValue(s) ==
    NatValue(Slice(SelectSeq(s, LAMBDA c : c \in DecimalDigits) \o <<"0", "0", "0", "0">>,
                   1, 4))

\* an optional sign in front of body
SignOf(s) == IF Len(s) >= 1 /\ s[1] = "-" THEN 0 - 1 ELSE 1
Unsigned(s) == IF Len(s) >= 1 /\ s[1] \in {"+", "-"} THEN Slice(s, 2, Len(s)) ELSE s

NotANumber == [ok |-> FALSE, kind |-> "none", value |-> 0]

\* int(s)
ParseIntStripped(t) ==
    IF IsDigitPart(Unsigned(t))
    THEN [ok |-> TRUE, kind |-> "finite", value |-> SignOf(t) * DigitPartValue(Unsigned(t))]
    ELSE NotANumber
ParseInt(s) == ParseIntStripped(Strip(s))

RECURSIVE Pow10(_)
Pow10(n) == IF n <= 0 THEN 1 ELSE 10 * Pow10(n - 1)

\* digits [ "." [digits] ] or "." digits
MantissaOk(ip, fp, dot) ==
    /\ Len(ip) = 0 \/ IsDigitPart(ip)
    /\ Len(fp) = 0 \/ IsDigitPart(fp)
    /\ Len(ip) > 0 \/ Len(fp) > 0
    /\ dot > 0 \/ Len(ip) > 0
MantissaSplit(m, dot) ==
    IF dot = 0 THEN [ok |-> MantissaOk(m, <<>>, dot), value |-> DigitPartValue(m) * SCALE]
    ELSE [ok |-> MantissaOk(Slice(m, 1, dot - 1), Slice(m, dot + 1, Len(m)), dot),
          value |-> DigitPartValue(Slice(m, 1, dot - 1)) * SCALE
                      + FractionValue(Slice(m, dot + 1, Len(m)))]
Mantissa(m) == MantissaSplit(m, FirstIndex(m, {"."}))

\* ("e" | "E") [sign] digits
ExponentOk(x) == IsDigitPart(Unsigned(x))
ExponentValue(x) == SignOf(x) * DigitPartValue(Unsigned(x))
Scaled(value, exponent) ==
    IF exponent >= 0 THEN value * Pow10(exponent) ELSE value \div Pow10(0 - exponent)

\* the number of an unsigned literal b whose exponent mark is at position e
FloatLiteral(b, e) ==
    IF e = 0
    THEN (IF Mantissa(b).ok THEN [ok |-> TRUE, kind |-> "finite", value |-> Mantissa(b).value]
          ELSE NotANumber)
    ELSE IF Mantissa(Slice(b, 1, e - 1)).ok /\ ExponentOk(Slice(b, e + 1, Len(b)))
         THEN [ok |-> TRUE, kind |-> "finite",
               value |-> Scaled(Mantissa(Slice(b, 1, e - 1)).value,
                                ExponentValue(Slice(b, e + 1, Len(b))))]
    ELSE NotANumber

WithSign(r, sign) == [ok |-> r.ok, kind |-> r.kind, value |-> sign * r.value]

\* float(s) on the stripped, lower-cased string t
ParseFloatStripped(t) ==
    IF Unsigned(t) \in {<<"i", "n", "f">>, <<"i", "n", "f", "i", "n", "i", "t", "y">>}
    THEN [ok |-> TRUE, kind |-> "inf", value |-> SignOf(t)]
    ELSE IF Unsigned(t) = <<"n", "a", "n">> THEN [ok |-> TRUE, kind |-> "nan", value |-> 0]
    ELSE WithSign(FloatLiteral(Unsigned(t), FirstIndex(Unsigned(t), {"e"})), SignOf(t))
ParseFloat(s) == ParseFloatStripped(LowerAll(Strip(s)))

RECURSIVE Split(_, _)
\* s.split(sep)
Split(s, sep) ==
    IF \A k \in 1..Len(s) : s[k] # sep THEN <<s>>
    ELSE <<Slice(s, 1, FirstIndex(s, {sep}) - 1)>>
           \o Split(Slice(s, FirstIndex(s, {sep}) + 1, Len(s)), sep)

SecondsPerMinute == 60
SecondsPerHour == 3600

\* whole * unit + seconds, where int() or float() may have raised
PlusSeconds(whole, unit, seconds) ==
    IF ~whole.ok \/ ~seconds.ok THEN [outcome |-> "ValueError", kind |-> "none", value |-> 0]
    ELSE IF seconds.kind # "finite"
         THEN [outcome |-> "ok", kind |-> seconds.kind, value |-> seconds.value]
    ELSE [outcome |-> "ok", kind |-> "finite",
          value |-> whole.value * unit * SCALE + seconds.value]

\* int(hours) * 3600 + int(minutes) * 60 + float(seconds)
HoursMinutesSeconds(hours, minutes, seconds) ==
    IF ~hours.ok THEN [outcome |-> "ValueError", kind |-> "none", value |-> 0]
    ELSE PlusSeconds([ok |-> minutes.ok, kind |-> "finite",
                      value |-> hours.value * (SecondsPerHour \div SecondsPerMinute)
                                  + minutes.value],
                     SecondsPerMinute, seconds)

TimeParts(parts) ==
    IF Len(parts) = 2 THEN PlusSeconds(ParseInt(parts[1]), SecondsPerMinute, ParseFloat(parts[2]))
    ELSE IF Len(parts) = 3
         THEN HoursMinutesSeconds(ParseInt(parts[1]), ParseInt(parts[2]), ParseFloat(parts[3]))
    ELSE [outcome |-> "ValueError", kind |-> "none", value |-> 0]

PlainOrParts(plain, time_str) ==
    IF plain.ok THEN [outcome |-> "ok", kind |-> plain.kind, value |-> plain.value]
    ELSE TimeParts(Split(time_str, ":"))

parse_time_string(time_str) == PlainOrParts(ParseFloat(time_str), time_str)

\* The strings parsed: every string of up to MaxTimeLen characters of
\* TimeChars, and those of test_suite.py with some more
MaxTimeLen == 4
TimeChars == {"1", "5", ":", ".", "-"}
TestStrings ==
    {<<"5">>, <<"5", ".", "5">>, <<"1", ":", "3", "0">>, <<"0", ":", "4", "5">>,
     <<"1", ":", "3", "0", ":", "4", "5">>, <<"0", "0", ":", "0", "1", ":", "3", "0">>,
     <<"i", "n", "v", "a", "l", "i", "d">>, <<"1", ":", "2", ":", "3", ":", "4">>,
     <<"1", "e", "3">>, <<"n", "a", "n">>, <<"I", "n", "f">>, <<"1", "_", "0">>,
     <<" ", "5">>, <<"2", ":", "0", "3", ".", "4", "5">>, <<"1", ":", "n", "a", "n">>}
TimeStrings == UNION {[1..n -> TimeChars] : n \in 0..MaxTimeLen} \cup TestStrings

InitParse ==
    /\ video = PatternVideo(<<1>>, 1, 4, 0)
    /\ analyzer = NewAnalyzer("FrameAnalyzer", S1.threshold)
    /\ detected_loops = <<>>
    /\ last \in {[op |-> "init", time_str |-> time_str] : time_str \in TimeStrings}

\* parse_time_string(time_str)
ParseTimeString ==
    /\ last.op = "init"
    /\ \E r \in {parse_time_string(last.time_str)} :
            last' = [op |-> "parse_time_string", time_str |-> last.time_str,
                     outcome |-> r.outcome, kind |-> r.kind, value |-> r.value]
    /\ UNCHANGED <<video, analyzer, detected_loops>>

NextParse == ParseTimeString

SpecParse == InitParse /\ [][NextParse]_vars

\* the formats of the claim: digits, and digits with a point among them (read
\* broadly: the digits before or after the point may be missing)
PlainDigits(s) == Len(s) >= 1 /\ \A k \in 1..Len(s) : s[k] \in DecimalDigits
PlainSeconds(s) ==
    /\ \E k \in 1..Len(s) : s[k] \in DecimalDigits
    /\ \A k \in 1..Len(s) : s[k] \in DecimalDigits \cup {"."}
    /\ FirstIndex(s, {"."}) = LastIndex(s, {"."})
PlainSecondsValue(s) ==
    IF FirstIndex(s, {"."}) = 0 THEN NatValue(s) * SCALE
    ELSE NatValue(Slice(s, 1, FirstIndex(s, {"."}) - 1)) * SCALE
           + FractionValue(Slice(s, FirstIndex(s, {"."}) + 1, Len(s)))
InTimeFormat(parts) ==
    /\ Len(parts) <= 3
    /\ \A k \in 1..(Len(parts) - 1) : PlainDigits(parts[k])
    /\ PlainSeconds(parts[Len(parts)])
TimeFormatValue(parts) ==
    IF Len(parts) = 1 THEN PlainSecondsValue(parts[1])
    ELSE IF Len(parts) = 2
         THEN NatValue(parts[1]) * SecondsPerMinute * SCALE + PlainSecondsValue(parts[2])
    ELSE NatValue(parts[1]) * SecondsPerHour * SCALE
           + NatValue(parts[2]) * SecondsPerMinute * SCALE + PlainSecondsValue(parts[3])

\* C21: parse_time_string returns 3600*H + 60*M + S for "H:M:S[.frac]",
\* 60*M + S for "M:S[.frac]" and the value of plain integer or decimal
\* seconds; every other string raises ValueError.
C21_ParseTimeString ==
    last.op = "parse_time_string" =>
        IF InTimeFormat(Split(last.time_str, ":"))
        THEN /\ last.outcome = "ok"
             /\ last.kind = "finite"
             /\ last.value = TimeFormatValue(Split(last.time_str, ":"))
        ELSE last.outcome = "ValueError"

====
